---- MODULE Spec2Model ----
(***************************************************************************)
(* Model of the Chirpy server's authentication and session lifecycle:      *)
(* the users, refresh_tokens and chirps tables, the JWT codec of auth.rs    *)
(* and the handlers of api.rs.  Every handler runs on its                  *)
(* own task; a handler is split at the database calls it awaits, so that   *)
(* other requests (and the clock) can act between its steps.               *)
(***************************************************************************)
EXTENDS Integers, Sequences, FiniteSets, TLC

VARIABLES now, ticks, users, refresh_tokens, chirps, state, tasks, last

vars == <<now, ticks, users, refresh_tokens, chirps, state, tasks, last>>

(* ------------------------------ bounds -------------------------------- *)

\* The clock reading (seconds since the epoch) when the server starts.
StartTime == 100
\* How many times the clock is advanced in one behaviour.
MaxTicks == 1
\* The larger of the two values std::random yields in the model.
MaxRand == 17
\* How many refresh tokens the logins of one behaviour may store.
MaxTokens == 2
\* How many chirps the table may hold.
MaxChirps == 2

(* ------------------------- program constants -------------------------- *)

SecondsPerHour == 3600
HoursPerDay == 24
\* Duration::hours(1): the lifetime of an access token.
AccessTokenHours == 1
\* INTERVAL '60 days': the lifetime of a refresh token.
RefreshTokenDays == 60
\* jsonwebtoken's Validation::new sets a leeway of 60 seconds.
Leeway == 60

\* ChirpBody::try_from: the longest body, in bytes.
MaxChirpLen == 140

AccessTtl == AccessTokenHours * SecondsPerHour
RefreshTtl == RefreshTokenDays * HoursPerDay * SecondsPerHour

\* The secret the process reads at startup.
Secret == "jwt-secret"
Issuer == "Chirpy"

\* Option::None of a timestamp column.
NULL == -1

(* --------------------------- input domains ---------------------------- *)

Tasks == {1, 2}
Emails == {"walt@breakingbad.com", "saul@bettercall.com"}
Passwords == {"123456", "hunter2"}
\* The password create_user is sent.
NewPasswords == {"hunter2"}
\* Values gen_random_uuid() can return (a Uuid is modelled as one byte).
UuidValues == {7, 200}
\* Values std::random::random::<u128>() can return.
RandomValues == {1, MaxRand}
\* The pairs of them make_refresh_token draws.
RandomPairs == {<<1, b>> : b \in RandomValues}
\* The JSON bodies sent to login: the two fields of LoginPayload, and one
\* body that also asks for a ten-second access token.
LoginBodies ==
    {[email |-> e, password |-> pw] : e \in Emails, pw \in Passwords}
        \cup {[email |-> "walt@breakingbad.com", password |-> "123456",
                expires_in_seconds |-> 10]}
\* How far one Tick moves the clock.
TickSteps == {AccessTtl, RefreshTtl, RefreshTtl + 1}

(* ------------------------- text and encodings ------------------------- *)

HexDigits == <<"0", "1", "2", "3", "4", "5", "6", "7",
               "8", "9", "a", "b", "c", "d", "e", "f">>

HexDigit(n) == HexDigits[n + 1]

\* format!("{:x}", n): lower-case hex without padding.
RECURSIVE LowerHex(_)
LowerHex(n) == IF n < 16 THEN <<HexDigit(n)>>
               ELSE LowerHex(n \div 16) \o <<HexDigit(n % 16)>>

\* Uuid::to_string: the hyphenated form, fixed width, lower-case hex.  The
\* one byte of the model's uuid is written as its two digits with the
\* hyphen between them.
UuidToString(u) == <<HexDigit(u \div 16), "-", HexDigit(u % 16)>>

UpperHexDigits == <<"0", "1", "2", "3", "4", "5", "6", "7",
                    "8", "9", "A", "B", "C", "D", "E", "F">>

\* A hex digit in either case, as Uuid::try_parse reads it.
HexValue(c) == CHOOSE n \in 0..15 : HexDigit(n) = c \/ UpperHexDigits[n + 1] = c

IsHexDigit(c) == \E n \in 0..15 : HexDigit(n) = c \/ UpperHexDigits[n + 1] = c

UrnPrefix == <<"u", "r", "n", ":", "u", "u", "i", "d", ":">>

\* The digits of a uuid text, or <<>> for a text in none of the forms.
\* The simple form is the digits themselves, the hyphenated form has the
\* hyphen between them; urn:uuid: in front and braces around are read
\* around the hyphenated form only.
UuidDigits(s) ==
    LET hyphenated(t) == IF Len(t) = 3 /\ t[2] = "-" THEN <<t[1], t[3]>>
                         ELSE <<>>
    IN IF Len(s) >= Len(UrnPrefix) /\ SubSeq(s, 1, Len(UrnPrefix)) = UrnPrefix
       THEN hyphenated(SubSeq(s, Len(UrnPrefix) + 1, Len(s)))
       ELSE IF Len(s) >= 2 /\ s[1] = "{" /\ s[Len(s)] = "}"
       THEN hyphenated(SubSeq(s, 2, Len(s) - 1))
       ELSE IF Len(s) = 3 THEN hyphenated(s)
       ELSE s

\* The uuid two digits stand for.
UuidOfDigits(d) ==
    IF Len(d) = 2 /\ \A i \in 1..2 : IsHexDigit(d[i])
    THEN [ok |-> TRUE, val |-> 16 * HexValue(d[1]) + HexValue(d[2])]
    ELSE [ok |-> FALSE]

\* Uuid::try_parse: Ok(uuid) for a well-formed string in any of the forms
\* and in either case, Err otherwise.
UuidTryParse(s) == UuidOfDigits(UuidDigits(s))

\* strip_prefix that drops as many characters as the prefix has without
\* comparing them.
strip_prefix_unchecked(s, prefix) ==
    IF Len(s) >= Len(prefix)
    THEN [ok |-> TRUE, val |-> SubSeq(s, Len(prefix) + 1, Len(s))]
    ELSE [ok |-> FALSE]

\* str::strip_prefix: Some(rest) when s starts with prefix, None otherwise.
strip_prefix(s, prefix) ==
    IF Len(s) >= Len(prefix) /\ SubSeq(s, 1, Len(prefix)) = prefix
    THEN [ok |-> TRUE, val |-> SubSeq(s, Len(prefix) + 1, Len(s))]
    ELSE [ok |-> FALSE]

\* str::split on one separator character: the pieces between separators.
Split(s, sep) ==
    LET at == {i \in 1..Len(s) : s[i] = sep}
        n == Cardinality(at)
        \* The position of the k-th separator; 0 and Len(s) + 1 bound the text.
        pos(k) == IF k = 0 THEN 0
                  ELSE IF k = n + 1 THEN Len(s) + 1
                  ELSE CHOOSE i \in at : Cardinality({j \in at : j < i}) = k - 1
    IN [k \in 1..(n + 1) |-> SubSeq(s, pos(k - 1) + 1, pos(k) - 1)]

DecimalDigits == <<"0", "1", "2", "3", "4", "5", "6", "7", "8", "9">>

\* u64 to decimal text (serde_json).
RECURSIVE Decimal(_)
Decimal(n) == IF n < 10 THEN <<DecimalDigits[n + 1]>>
              ELSE Decimal(n \div 10) \o <<DecimalDigits[(n % 10) + 1]>>

\* A JSON number that is a u64: digits, with no leading zero before others.
\* Decimal text to u64.
DecimalValue(c) == CHOOSE n \in 0..9 : DecimalDigits[n + 1] = c

\* u64::MAX in decimal.
U64MaxText == <<"1", "8", "4", "4", "6", "7", "4", "4", "0", "7",
                "3", "7", "0", "9", "5", "5", "1", "6", "1", "5">>

IsDecimal(s) ==
    /\ Len(s) > 0
    /\ \A i \in 1..Len(s) : \E n \in 0..9 : DecimalDigits[n + 1] = s[i]
    /\ Len(s) > 1 => s[1] # "0"
    /\ \/ Len(s) < Len(U64MaxText)
       \/ /\ Len(s) = Len(U64MaxText)
          /\ \/ s = U64MaxText
             \/ \E i \in 1..Len(s) :
                    /\ SubSeq(s, 1, i - 1) = SubSeq(U64MaxText, 1, i - 1)
                    /\ DecimalValue(s[i]) < DecimalValue(U64MaxText[i])

\* The value of the first n digits of s.
RECURSIVE DecimalPrefix(_, _)
DecimalPrefix(s, n) ==
    IF n = 0 THEN 0 ELSE 10 * DecimalPrefix(s, n - 1) + DecimalValue(s[n])

\* serde_json's reading of a u64: Err for a text that is not one.
ParseDecimal(s) ==
    IF IsDecimal(s) THEN [ok |-> TRUE, val |-> DecimalPrefix(s, Len(s))]
    ELSE [ok |-> FALSE]

BearerPrefix == <<"B", "e", "a", "r", "e", "r", " ">>
TokenPrefix == <<"T", "o", "k", "e", "n", " ">>

(* ------------------------------ auth.rs ------------------------------- *)

\* make_refresh_token: two random u128 rendered with {:x}{:x}.
make_refresh_token(bits) == LowerHex(bits[1]) \o LowerHex(bits[2])

TokenValues == {make_refresh_token(bits) : bits \in RandomPairs}

\* HMAC-SHA256 of the claims under a secret.
HS256(secret, claims) == [key |-> secret, msg |-> claims]

\* impl From<String> for JwtKey
JwtKey(secret) ==
    [encoding_key |-> secret,
     decoding_key |-> secret,
     validation |-> [iss |-> {Issuer}, leeway |-> Leeway,
                     required |-> {"exp", "iss", "iat", "sub"}]]

\* encode_user with the subject rendered without zero padding.
encode_user_unpadded(key, user_id, expires_in, current_time, lib_ok) ==
    LET claims == [exp |-> current_time + expires_in,
                   iss |-> Issuer,
                   iat |-> current_time,
                   sub |-> LowerHex(user_id)]
    IN IF lib_ok
       THEN [ok |-> TRUE,
             val |-> [claims |-> claims, mac |-> HS256(key.encoding_key, claims)]]
       ELSE [ok |-> FALSE]

\* JwtKey::encode_user at clock reading current_time.  lib_ok is the outcome
\* of jsonwebtoken::encode, whose Err the callers match on.
encode_user(key, user_id, expires_in, current_time, lib_ok) ==
    LET claims == [exp |-> current_time + expires_in,
                   iss |-> Issuer,
                   iat |-> current_time,
                   sub |-> UuidToString(user_id)]
    IN IF lib_ok
       THEN [ok |-> TRUE,
             val |-> [claims |-> claims, mac |-> HS256(key.encoding_key, claims)]]
       ELSE [ok |-> FALSE]

\* The claims as they are written into a token's text: sub, iat, exp, iss.
ClaimsText(claims) ==
    claims.sub \o <<",">> \o Decimal(claims.iat) \o <<",">>
        \o Decimal(claims.exp) \o <<",", claims.iss>>

\* The text of a token, as it travels in a response and in a header: the
\* claims, the key of the signature and the message that was signed,
\* separated by dots.
Compact(jwt) ==
    ClaimsText(jwt.claims) \o <<".", jwt.mac.key, ".">> \o ClaimsText(jwt.mac.msg)

\* The four fields of a claims text: sub, iat, exp, iss.
IsClaimsFields(f) ==
    Len(f) = 4 /\ IsDecimal(f[2]) /\ IsDecimal(f[3]) /\ Len(f[4]) = 1

ClaimsOfFields(f) ==
    [exp |-> ParseDecimal(f[3]).val, iss |-> f[4][1],
     iat |-> ParseDecimal(f[2]).val, sub |-> f[1]]

\* A token from the fields of its claims segment, its key segment and the
\* fields of its signed segment.
JwtOfFields(claims, key, msg) ==
    IF Len(key) = 1 /\ IsClaimsFields(claims) /\ IsClaimsFields(msg)
    THEN [ok |-> TRUE,
          val |-> [claims |-> ClaimsOfFields(claims),
                   mac |-> [key |-> key[1], msg |-> ClaimsOfFields(msg)]]]
    ELSE [ok |-> FALSE]

JwtOfSegments(seg) ==
    IF Len(seg) = 3
    THEN JwtOfFields(Split(seg[1], ","), seg[2], Split(seg[3], ","))
    ELSE [ok |-> FALSE]

\* jsonwebtoken::decode, first half: the text is taken apart; a text that
\* is not three well-formed segments is an Err.
JwtParse(text) == JwtOfSegments(Split(text, "."))

\* JwtKey::decode without the check of the signature.
decode_unverified(key, token, current_time) ==
    IF /\ key.validation.required \subseteq DOMAIN token.claims
       /\ token.claims.iss \in key.validation.iss
       /\ ~(token.claims.exp < current_time - key.validation.leeway)
    THEN [ok |-> TRUE, val |-> token.claims]
    ELSE [ok |-> FALSE]

\* JwtKey::decode at clock reading current_time.
decode(key, token, current_time) ==
    IF /\ token.mac = HS256(key.decoding_key, token.claims)
       /\ key.validation.required \subseteq DOMAIN token.claims
       /\ token.claims.iss \in key.validation.iss
       /\ ~(token.claims.exp < current_time - key.validation.leeway)
    THEN [ok |-> TRUE, val |-> token.claims]
    ELSE [ok |-> FALSE]

\* JwtKey::decode_user
decode_user(key, token, current_time) ==
    LET token_data == decode(key, token, current_time)
    IN IF token_data.ok THEN UuidTryParse(token_data.val.sub) ELSE [ok |-> FALSE]

\* JwtKey::decode_user on a token as JwtParse returned it.
decode_user_parsed(key, jwt, current_time) ==
    IF jwt.ok THEN decode_user(key, jwt.val, current_time) ELSE [ok |-> FALSE]

\* JwtKey::decode_user on the text of a token.
decode_user_text(key, text, current_time) ==
    decode_user_parsed(key, JwtParse(text), current_time)

(* ----------------------------- queries.rs ----------------------------- *)

\* password_auth::generate_hash / verify_password
generate_hash(password) == <<"phc", password>>

\* User::verify
verify(user, password) == user.hashed_password = generate_hash(password)

\* The users table: id is its primary key and email is unique.
users_unique(db, id, email) == ~\E u \in db : u.id = id \/ u.email = email

\* The refresh_tokens table: token is its primary key.
refresh_tokens_pkey(db, token) == token \notin DOMAIN db

\* insert_user: INSERT INTO users ... RETURNING *.  The id is the value
\* gen_random_uuid() returned.  The created_at and updated_at columns,
\* which no handler reads, are left out.
insert_user(db, id, email, password) ==
    LET row == [id |-> id, email |-> email,
                hashed_password |-> generate_hash(password),
                is_chirpy_red |-> FALSE]
    IN IF ~users_unique(db, id, email)
       THEN [ok |-> FALSE, db |-> db]
       ELSE [ok |-> TRUE, val |-> row, db |-> db \cup {row}]

\* get_user_by_email: SELECT * FROM users WHERE email = $1, fetch_one.
get_user_by_email(db, email) ==
    IF \E u \in db : u.email = email
    THEN [ok |-> TRUE, val |-> CHOOSE u \in db : u.email = email]
    ELSE [ok |-> FALSE]

\* new_refresh_token as an upsert: a row already stored under the token
\* value is overwritten.
new_refresh_token_upsert(db, user, bits, t, store_ok) ==
    LET refresh_token == make_refresh_token(bits)
        row == [token |-> refresh_token, created_at |-> t, updated_at |-> t,
                user_id |-> user.id, expires_at |-> t + RefreshTtl,
                revoked_at |-> NULL]
    IN IF ~store_ok
       THEN [ok |-> FALSE, db |-> db]
       ELSE [ok |-> TRUE, val |-> row,
             db |-> [k \in DOMAIN db \cup {refresh_token} |->
                        IF k = refresh_token THEN row ELSE db[k]]]

\* new_refresh_token with an entry that lives as long as an access token.
new_refresh_token_short(db, user, bits, t, store_ok) ==
    LET refresh_token == make_refresh_token(bits)
        row == [token |-> refresh_token, created_at |-> t, updated_at |-> t,
                user_id |-> user.id, expires_at |-> t + AccessTtl,
                revoked_at |-> NULL]
    IN IF ~store_ok \/ ~refresh_tokens_pkey(db, refresh_token)
       THEN [ok |-> FALSE, db |-> db]
       ELSE [ok |-> TRUE, val |-> row,
             db |-> [k \in DOMAIN db \cup {refresh_token} |->
                        IF k = refresh_token THEN row ELSE db[k]]]

\* new_refresh_token with the owner column bound to the first registered
\* user instead of the user passed in.
new_refresh_token_misowned(db, user, bits, t, store_ok) ==
    LET refresh_token == make_refresh_token(bits)
        row == [token |-> refresh_token, created_at |-> t, updated_at |-> t,
                user_id |-> 7, expires_at |-> t + RefreshTtl,
                revoked_at |-> NULL]
    IN IF ~store_ok \/ ~refresh_tokens_pkey(db, refresh_token)
       THEN [ok |-> FALSE, db |-> db]
       ELSE [ok |-> TRUE, val |-> row,
             db |-> [k \in DOMAIN db \cup {refresh_token} |->
                        IF k = refresh_token THEN row ELSE db[k]]]

\* new_refresh_token: INSERT INTO refresh_tokens ... RETURNING *, with the
\* value make_refresh_token returned.  store_ok is whether the database
\* carried the statement out.
new_refresh_token(db, user, bits, t, store_ok) ==
    LET refresh_token == make_refresh_token(bits)
        row == [token |-> refresh_token, created_at |-> t, updated_at |-> t,
                user_id |-> user.id, expires_at |-> t + RefreshTtl,
                revoked_at |-> NULL]
    IN IF ~store_ok \/ ~refresh_tokens_pkey(db, refresh_token)
       THEN [ok |-> FALSE, db |-> db]
       ELSE [ok |-> TRUE, val |-> row,
             db |-> [k \in DOMAIN db \cup {refresh_token} |->
                        IF k = refresh_token THEN row ELSE db[k]]]

\* get_refresh_token_entry with a sliding expiry: the lookup pushes the
\* entry's expires_at forward.
get_refresh_token_entry_sliding(db, token) ==
    IF token \in DOMAIN db
    THEN [ok |-> TRUE, val |-> db[token],
          db |-> [db EXCEPT ![token].expires_at = @ + RefreshTtl]]
    ELSE [ok |-> FALSE, db |-> db]

\* get_refresh_token_entry: SELECT * FROM refresh_tokens WHERE token = $1.
get_refresh_token_entry(db, token) ==
    IF token \in DOMAIN db
    THEN [ok |-> TRUE, val |-> db[token], db |-> db]
    ELSE [ok |-> FALSE, db |-> db]

\* revoke_refresh_token as a toggle: revoking a revoked entry clears
\* revoked_at.
revoke_refresh_token_toggle(db, token, t, store_ok) ==
    IF store_ok /\ token \in DOMAIN db
    THEN LET row == [db[token] EXCEPT
                        !.updated_at = t,
                        !.revoked_at = IF @ = NULL THEN t ELSE NULL]
         IN [ok |-> TRUE, val |-> row, db |-> [db EXCEPT ![token] = row]]
    ELSE [ok |-> FALSE, db |-> db]

\* revoke_refresh_token ending the whole session family: every entry of the
\* token's user is stamped.
revoke_refresh_token_all_sessions(db, token, t, store_ok) ==
    IF store_ok /\ token \in DOMAIN db
    THEN LET row == [db[token] EXCEPT !.updated_at = t, !.revoked_at = t]
         IN [ok |-> TRUE, val |-> row,
             db |-> [k \in DOMAIN db |->
                        IF db[k].user_id = db[token].user_id
                        THEN [db[k] EXCEPT !.updated_at = t, !.revoked_at = t]
                        ELSE db[k]]]
    ELSE [ok |-> FALSE, db |-> db]

\* revoke_refresh_token keeping the first stamp: revoked_at is set only
\* while it is null.
revoke_refresh_token_once(db, token, t, store_ok) ==
    IF store_ok /\ token \in DOMAIN db
    THEN LET row == [db[token] EXCEPT
                        !.updated_at = t,
                        !.revoked_at = IF @ = NULL THEN t ELSE @]
         IN [ok |-> TRUE, val |-> row, db |-> [db EXCEPT ![token] = row]]
    ELSE [ok |-> FALSE, db |-> db]

\* revoke_refresh_token: UPDATE refresh_tokens SET updated_at = NOW(),
\* revoked_at = NOW() WHERE token = $1 RETURNING *, fetch_one.  Err when no
\* row has the token and when the statement fails (store_ok false); no row
\* changes then.
revoke_refresh_token(db, token, t, store_ok) ==
    IF store_ok /\ token \in DOMAIN db
    THEN LET row == [db[token] EXCEPT !.updated_at = t, !.revoked_at = t]
         IN [ok |-> TRUE, val |-> row, db |-> [db EXCEPT ![token] = row]]
    ELSE [ok |-> FALSE, db |-> db]

\* update_user_credentials: UPDATE users SET email = $1, hashed_password =
\* $2 WHERE id = $3 RETURNING *, fetch_one.  Err when no row has the id,
\* when the email belongs to another row and when the statement fails
\* (store_ok false).
update_user_credentials(db, user_id, email, password, store_ok) ==
    IF \/ ~store_ok
       \/ ~\E u \in db : u.id = user_id
       \/ \E u \in db : u.id # user_id /\ u.email = email
    THEN [ok |-> FALSE, db |-> db]
    ELSE LET old == CHOOSE u \in db : u.id = user_id
             row == [old EXCEPT !.email = email,
                                !.hashed_password = generate_hash(password)]
         IN [ok |-> TRUE, val |-> row, db |-> (db \ {old}) \cup {row}]

\* make_user_red: UPDATE users SET is_chirpy_red = true WHERE id = $1
\* RETURNING *, fetch_one.  Err when no row has the id and when the
\* statement fails (store_ok false).
make_user_red(db, user_id, store_ok) ==
    IF ~store_ok \/ ~\E u \in db : u.id = user_id
    THEN [ok |-> FALSE, db |-> db]
    ELSE LET old == CHOOSE u \in db : u.id = user_id
             row == [old EXCEPT !.is_chirpy_red = TRUE]
         IN [ok |-> TRUE, val |-> row, db |-> (db \ {old}) \cup {row}]

\* insert_chirp: INSERT INTO chirps ... RETURNING ..., with chirp_id the
\* value gen_random_uuid() returned and both timestamps NOW().  The
\* sources do not say whether the table has a key on chirp_id: an id that
\* gen_random_uuid() repeats gives a second row here, and the failing
\* statement of post_chirp_insert covers the table that refuses it.
insert_chirp(db, body, user_id, chirp_id, t) ==
    LET row == [chirp_id |-> chirp_id, user_id |-> user_id,
                created_at |-> t, updated_at |-> t, body |-> body]
    IN [ok |-> TRUE, val |-> row, db |-> db \cup {row}]

\* delete_chirp_if_author without the user_id condition in its WHERE clause.
delete_chirp_anyone(db, chirp_id, user_id, store_ok) ==
    LET rows == {c \in db : c.chirp_id = chirp_id}
    IN IF ~store_ok \/ rows = {}
       THEN [ok |-> FALSE, db |-> db]
       ELSE [ok |-> TRUE, val |-> CHOOSE c \in rows : TRUE, db |-> db \ rows]

\* delete_chirp_if_author: DELETE FROM chirps WHERE chirp_id = $1 AND
\* user_id = $2 RETURNING ..., fetch_one.  Err when no row matches and
\* when the statement fails (store_ok false); no row is removed then.
delete_chirp_if_author(db, chirp_id, user_id, store_ok) ==
    LET rows == {c \in db : c.chirp_id = chirp_id /\ c.user_id = user_id}
    IN IF ~store_ok \/ rows = {}
       THEN [ok |-> FALSE, db |-> db]
       ELSE [ok |-> TRUE, val |-> CHOOSE c \in rows : TRUE, db |-> db \ rows]

(* ------------------------------- api.rs ------------------------------- *)

\* A HeaderMap, as far as its AUTHORIZATION entry goes.
NoAuthorization == [present |-> FALSE]
Authorization(text) == [present |-> TRUE, ascii |-> TRUE, bytes |-> text]
OpaqueAuthorization == [present |-> TRUE, ascii |-> FALSE, bytes |-> <<>>]

Bearer(token) == Authorization(BearerPrefix \o token)

HeaderMaps ==
    {NoAuthorization, OpaqueAuthorization}
        \cup {Bearer(t) : t \in TokenValues}
        \cup {Authorization(TokenPrefix \o make_refresh_token(<<1, 1>>))}

\* extract_bearer_token
extract_bearer_token(headers) ==
    IF ~headers.present THEN [ok |-> FALSE]
    ELSE IF ~headers.ascii THEN [ok |-> FALSE]
    ELSE strip_prefix(headers.bytes, BearerPrefix)

\* extract_user_id_from_bearer that takes the subject of any token it can
\* read, without validating it.
extract_user_id_from_bearer_unvalidated(headers, key, current_time) ==
    LET token == extract_bearer_token(headers)
        jwt == JwtParse(token.val)
    IN IF token.ok /\ jwt.ok THEN UuidTryParse(jwt.val.claims.sub)
       ELSE [ok |-> FALSE]

\* extract_user_id_from_bearer that turns down a token once its user holds
\* a revoked refresh token.
extract_user_id_from_bearer_session_bound(headers, key, current_time) ==
    LET token == extract_bearer_token(headers)
        user_id == IF token.ok THEN decode_user_text(key, token.val, current_time)
                   ELSE [ok |-> FALSE]
    IN IF /\ user_id.ok
          /\ \E k \in DOMAIN refresh_tokens :
                /\ refresh_tokens[k].user_id = user_id.val
                /\ refresh_tokens[k].revoked_at # NULL
       THEN [ok |-> FALSE]
       ELSE user_id

\* extract_user_id_from_bearer and extract_jwt_token_user_id, which has
\* the same body.
extract_user_id_from_bearer(headers, key, current_time) ==
    LET token == extract_bearer_token(headers)
    IN IF token.ok THEN decode_user_text(key, token.val, current_time)
       ELSE [ok |-> FALSE]

\* The characters with the Unicode property White_Space.  A character
\* outside ASCII is written as its code point.
White_Space ==
    {" ", "\t", "\n", "\r", "\f", "U+000B", "U+0085", "U+00A0", "U+1680",
     "U+2000", "U+2001", "U+2002", "U+2003", "U+2004", "U+2005", "U+2006",
     "U+2007", "U+2008", "U+2009", "U+200A", "U+2028", "U+2029", "U+202F",
     "U+205F", "U+3000"}

\* char::is_whitespace.
IsWhitespace(c) == c \in White_Space

\* str::split_whitespace: the maximal runs of non-whitespace characters.
split_whitespace(s) ==
    LET first == {i \in 1..Len(s) :
                     /\ ~IsWhitespace(s[i])
                     /\ (i = 1 \/ IsWhitespace(s[i - 1]))}
        last_of(i) == CHOOSE j \in i..Len(s) :
                         /\ \A k \in i..j : ~IsWhitespace(s[k])
                         /\ (j = Len(s) \/ IsWhitespace(s[j + 1]))
        \* Where the k-th word starts.
        nth(k) == CHOOSE i \in first : Cardinality({j \in first : j < i}) = k - 1
    IN [k \in 1..Cardinality(first) |-> SubSeq(s, nth(k), last_of(nth(k)))]

\* A character is written as itself when it is printable ASCII or one of
\* the escapes \t \n \f \r, and as its code point ("U+00E9", four to six
\* upper-case hex digits) otherwise; the grave accent, which a string of
\* this language cannot hold, is written as its code point too.
AsciiPrintable ==
    <<" ", "!", "\"", "#", "$", "%", "&", "'", "(", ")", "*", "+", ",", "-",
      ".", "/", "0", "1", "2", "3", "4", "5", "6", "7", "8", "9", ":", ";",
      "<", "=", ">", "?", "@", "A", "B", "C", "D", "E", "F", "G", "H", "I",
      "J", "K", "L", "M", "N", "O", "P", "Q", "R", "S", "T", "U", "V", "W",
      "X", "Y", "Z", "[", "\\", "]", "^", "_", "U+0060", "a", "b", "c", "d", "e",
      "f", "g", "h", "i", "j", "k", "l", "m", "n", "o", "p", "q", "r", "s",
      "t", "u", "v", "w", "x", "y", "z", "{", "|", "}", "~">>

\* char as u32: the code point of a character.
CodePoint(c) ==
    IF Len(c) = 1
    THEN IF c = "\t" THEN 9 ELSE IF c = "\n" THEN 10
         ELSE IF c = "\f" THEN 12 ELSE IF c = "\r" THEN 13
         ELSE 31 + CHOOSE i \in 1..Len(AsciiPrintable) : AsciiPrintable[i] = c
    ELSE LET n == Len(c)
             d(i) == IF i <= n THEN HexValue(SubSeq(c, i, i)) * 16^(n - i)
                     ELSE 0
         IN d(3) + d(4) + d(5) + d(6) + d(7) + d(8)

\* char::to_lowercase, on code points: the characters the Unicode
\* (17.0) lower-case mapping gives.  Each row of the table is
\* <<first, last, stride, offset>>: the code points first, first + stride,
\* ... up to last lower-case to themselves plus offset.  U+0130 alone
\* lower-cases to two characters.
to_lower(cp) ==
    IF cp < 128 THEN <<IF cp >= 65 /\ cp <= 90 THEN cp + 32 ELSE cp>>
    ELSE IF cp = 304 THEN <<105, 775>>
    ELSE LET table ==
                <<<<65, 90, 1, 32>>, <<192, 214, 1, 32>>, <<216, 222, 1, 32>>,
                   <<256, 302, 2, 1>>, <<306, 310, 2, 1>>, <<313, 327, 2, 1>>,
                   <<330, 374, 2, 1>>, <<376, 376, 1, -121>>, <<377, 381, 2, 1>>,
                   <<385, 385, 1, 210>>, <<386, 388, 2, 1>>, <<390, 390, 1, 206>>,
                   <<391, 391, 1, 1>>, <<393, 394, 1, 205>>, <<395, 395, 1, 1>>,
                   <<398, 398, 1, 79>>, <<399, 399, 1, 202>>, <<400, 400, 1, 203>>,
                   <<401, 401, 1, 1>>, <<403, 403, 1, 205>>, <<404, 404, 1, 207>>,
                   <<406, 406, 1, 211>>, <<407, 407, 1, 209>>, <<408, 408, 1, 1>>,
                   <<412, 412, 1, 211>>, <<413, 413, 1, 213>>, <<415, 415, 1, 214>>,
                   <<416, 420, 2, 1>>, <<422, 422, 1, 218>>, <<423, 423, 1, 1>>,
                   <<425, 425, 1, 218>>, <<428, 428, 1, 1>>, <<430, 430, 1, 218>>,
                   <<431, 431, 1, 1>>, <<433, 434, 1, 217>>, <<435, 437, 2, 1>>,
                   <<439, 439, 1, 219>>, <<440, 440, 1, 1>>, <<444, 444, 1, 1>>,
                   <<452, 452, 1, 2>>, <<453, 453, 1, 1>>, <<455, 455, 1, 2>>,
                   <<456, 456, 1, 1>>, <<458, 458, 1, 2>>, <<459, 475, 2, 1>>,
                   <<478, 494, 2, 1>>, <<497, 497, 1, 2>>, <<498, 500, 2, 1>>,
                   <<502, 502, 1, -97>>, <<503, 503, 1, -56>>, <<504, 542, 2, 1>>,
                   <<544, 544, 1, -130>>, <<546, 562, 2, 1>>, <<570, 570, 1, 10795>>,
                   <<571, 571, 1, 1>>, <<573, 573, 1, -163>>, <<574, 574, 1, 10792>>,
                   <<577, 577, 1, 1>>, <<579, 579, 1, -195>>, <<580, 580, 1, 69>>,
                   <<581, 581, 1, 71>>, <<582, 590, 2, 1>>, <<880, 882, 2, 1>>,
                   <<886, 886, 1, 1>>, <<895, 895, 1, 116>>, <<902, 902, 1, 38>>,
                   <<904, 906, 1, 37>>, <<908, 908, 1, 64>>, <<910, 911, 1, 63>>,
                   <<913, 929, 1, 32>>, <<931, 939, 1, 32>>, <<975, 975, 1, 8>>,
                   <<984, 1006, 2, 1>>, <<1012, 1012, 1, -60>>, <<1015, 1015, 1, 1>>,
                   <<1017, 1017, 1, -7>>, <<1018, 1018, 1, 1>>, <<1021, 1023, 1, -130>>,
                   <<1024, 1039, 1, 80>>, <<1040, 1071, 1, 32>>, <<1120, 1152, 2, 1>>,
                   <<1162, 1214, 2, 1>>, <<1216, 1216, 1, 15>>, <<1217, 1229, 2, 1>>,
                   <<1232, 1326, 2, 1>>, <<1329, 1366, 1, 48>>, <<4256, 4293, 1, 7264>>,
                   <<4295, 4295, 1, 7264>>, <<4301, 4301, 1, 7264>>,
                   <<5024, 5103, 1, 38864>>, <<5104, 5109, 1, 8>>, <<7305, 7305, 1, 1>>,
                   <<7312, 7354, 1, -3008>>,
                   <<7357, 7359, 1, -3008>>, <<7680, 7828, 2, 1>>, <<7838, 7838, 1, -7615>>,
                   <<7840, 7934, 2, 1>>, <<7944, 7951, 1, -8>>, <<7960, 7965, 1, -8>>,
                   <<7976, 7983, 1, -8>>, <<7992, 7999, 1, -8>>, <<8008, 8013, 1, -8>>,
                   <<8025, 8031, 2, -8>>, <<8040, 8047, 1, -8>>, <<8072, 8079, 1, -8>>,
                   <<8088, 8095, 1, -8>>, <<8104, 8111, 1, -8>>, <<8120, 8121, 1, -8>>,
                   <<8122, 8123, 1, -74>>, <<8124, 8124, 1, -9>>, <<8136, 8139, 1, -86>>,
                   <<8140, 8140, 1, -9>>, <<8152, 8153, 1, -8>>, <<8154, 8155, 1, -100>>,
                   <<8168, 8169, 1, -8>>, <<8170, 8171, 1, -112>>, <<8172, 8172, 1, -7>>,
                   <<8184, 8185, 1, -128>>, <<8186, 8187, 1, -126>>, <<8188, 8188, 1, -9>>,
                   <<8486, 8486, 1, -7517>>, <<8490, 8490, 1, -8383>>,
                   <<8491, 8491, 1, -8262>>, <<8498, 8498, 1, 28>>, <<8544, 8559, 1, 16>>,
                   <<8579, 8579, 1, 1>>, <<9398, 9423, 1, 26>>, <<11264, 11311, 1, 48>>,
                   <<11360, 11360, 1, 1>>, <<11362, 11362, 1, -10743>>,
                   <<11363, 11363, 1, -3814>>, <<11364, 11364, 1, -10727>>,
                   <<11367, 11371, 2, 1>>, <<11373, 11373, 1, -10780>>,
                   <<11374, 11374, 1, -10749>>, <<11375, 11375, 1, -10783>>,
                   <<11376, 11376, 1, -10782>>, <<11378, 11378, 1, 1>>,
                   <<11381, 11381, 1, 1>>, <<11390, 11391, 1, -10815>>,
                   <<11392, 11490, 2, 1>>, <<11499, 11501, 2, 1>>, <<11506, 11506, 1, 1>>,
                   <<42560, 42604, 2, 1>>, <<42624, 42650, 2, 1>>, <<42786, 42798, 2, 1>>,
                   <<42802, 42862, 2, 1>>, <<42873, 42875, 2, 1>>,
                   <<42877, 42877, 1, -35332>>, <<42878, 42886, 2, 1>>,
                   <<42891, 42891, 1, 1>>, <<42893, 42893, 1, -42280>>,
                   <<42896, 42898, 2, 1>>, <<42902, 42920, 2, 1>>,
                   <<42922, 42922, 1, -42308>>, <<42923, 42923, 1, -42319>>,
                   <<42924, 42924, 1, -42315>>, <<42925, 42925, 1, -42305>>,
                   <<42926, 42926, 1, -42308>>, <<42928, 42928, 1, -42258>>,
                   <<42929, 42929, 1, -42282>>, <<42930, 42930, 1, -42261>>,
                   <<42931, 42931, 1, 928>>, <<42932, 42946, 2, 1>>,
                   <<42948, 42948, 1, -48>>, <<42949, 42949, 1, -42307>>,
                   <<42950, 42950, 1, -35384>>, <<42951, 42953, 2, 1>>,
                   <<42955, 42955, 1, -42343>>, <<42956, 42958, 2, 1>>,
                   <<42960, 42970, 2, 1>>, <<42972, 42972, 1, -42561>>,
                   <<42997, 42997, 1, 1>>,
                   <<65313, 65338, 1, 32>>, <<66560, 66599, 1, 40>>,
                   <<66736, 66771, 1, 40>>, <<66928, 66938, 1, 39>>,
                   <<66940, 66954, 1, 39>>, <<66956, 66962, 1, 39>>,
                   <<66964, 66965, 1, 39>>, <<68736, 68786, 1, 64>>, <<68944, 68965, 1, 32>>,
                   <<71840, 71871, 1, 32>>, <<93760, 93791, 1, 32>>,
                   <<93856, 93880, 1, 27>>,
                   <<125184, 125217, 1, 34>>>>
             hit == {i \in 1..Len(table) :
                        /\ table[i][1] <= cp /\ cp <= table[i][2]
                        /\ (cp - table[i][1]) % table[i][3] = 0}
         IN IF hit = {} THEN <<cp>>
            ELSE <<cp + table[CHOOSE i \in hit : TRUE][4]>>

bad_words == {<<"k", "e", "r", "f", "u", "f", "f", "l", "e">>,
              <<"s", "h", "a", "r", "b", "e", "r", "t">>,
              <<"f", "o", "r", "n", "a", "x">>}

\* is_word_bad: bad_words.contains(&w.to_lowercase()).  str::to_lowercase
\* lower-cases w character by character with char::to_lowercase, except
\* that a capital sigma becomes U+03C3 or, at the end of a word, U+03C2,
\* by the Cased and Case_Ignorable properties of the characters around it.
\* The bad words hold neither, so w lower-cases to a bad word exactly
\* when its characters lower-case, one by one, to the characters of that
\* word.
is_word_bad(w) ==
    \E bad \in bad_words :
        /\ Len(w) = Len(bad)
        /\ \A i \in 1..Len(w) :
              to_lower(CodePoint(w[i])) = <<CodePoint(bad[i])>>

Stars == <<"*", "*", "*", "*">>

\* [&str]::join(" ")
RECURSIVE join(_)
join(words) ==
    IF words = <<>> THEN <<>>
    ELSE IF Len(words) = 1 THEN words[1]
    ELSE words[1] \o <<" ">> \o join(Tail(words))

\* clean_chirp
clean_chirp(chirp) ==
    LET words == split_whitespace(chirp)
    IN join([i \in 1..Len(words) |->
                IF is_word_bad(words[i]) THEN Stars ELSE words[i]])

\* str::len: the length in bytes of the UTF-8 text.  A character takes
\* one byte below U+0080, two below U+0800, three below U+10000 and four
\* from there on.
str_len(s) ==
    LET wide == {i \in 1..Len(s) : Len(s[i]) > 1}
        over(i, bound) == CodePoint(s[i]) >= bound
    IN Len(s) + Cardinality({i \in wide : over(i, 128)})
              + Cardinality({i \in wide : over(i, 2048)})
              + Cardinality({i \in wide : over(i, 65536)})

\* impl TryFrom<String> for ChirpBody
ChirpBody(body) ==
    IF str_len(body) > MaxChirpLen THEN [ok |-> FALSE]
    ELSE [ok |-> TRUE, val |-> clean_chirp(body)]

\* Where the clock stands within its second against the two stamps of an
\* entry: whether it is past the fraction of expires_at, and past the
\* fraction of revoked_at.  The model's times are whole seconds, the
\* program's carry fractions, and these say what the fractions decide.
SubSecond == [expires_at : BOOLEAN, revoked_at : BOOLEAN]

\* The checks authorize_user_refresh_token makes on the entry it fetched,
\* at clock reading current_time: each ensure! fails when its condition
\* is false.  A stamp in the second the clock reads is before the clock
\* when the clock is past its fraction.
refresh_token_checks(token_entry, current_time, past) ==
    /\ \/ token_entry.expires_at < current_time
       \/ token_entry.expires_at = current_time /\ past.expires_at
    /\ token_entry.revoked_at # NULL =>
          \/ token_entry.revoked_at < current_time
          \/ token_entry.revoked_at = current_time /\ past.revoked_at

\* Responses.
Response(status, body) == [status |-> status, body |-> body]
\* An error response that tells the caller the email is unknown.
error_response_leaky == Response(404, "User not found")
error_response == Response(401, "Incorrect email or password")

\* Json<LoginPayload>: serde keeps the two fields of the struct and drops
\* every other field of the body.
LoginPayload(body) == [email |-> body.email, password |-> body.password]

\* login's expires_in shortened by a second.
expires_in_short == AccessTtl - 1
\* login: let expires_in = Duration::hours(1).
expires_in == AccessTtl

\* User serialises without hashed_password.
UserJson(user) ==
    [id |-> user.id, email |-> user.email, is_chirpy_red |-> user.is_chirpy_red]

\* LoginResponse as JSON: the user's fields flattened beside the tokens.
LoginResponse(user, jwt_token, refresh_token) ==
    [id |-> user.id, email |-> user.email, is_chirpy_red |-> user.is_chirpy_red,
     token |-> jwt_token, refresh_token |-> refresh_token]

\* Chirp as JSON: chirp_id is written under the key id.
ChirpJson(chirp) ==
    [id |-> chirp.chirp_id, user_id |-> chirp.user_id,
     created_at |-> chirp.created_at, updated_at |-> chirp.updated_at,
     body |-> chirp.body]

RefreshResponse(jwt_token) == [token |-> jwt_token]

(* ------------------------------ state.rs ------------------------------ *)

\* enum Platform { Dev, Prod }.
Dev == "Dev"
Prod == "Prod"
Platform == {Dev, Prod}

\* Platform::new: the safest option is the default.
Platform_new == Prod

\* impl From<&str> for Platform: the match compares the whole text, case
\* included.
Platform_from(value) ==
    CASE value = "dev" -> Dev
      [] value = "prod" -> Prod
      [] OTHER -> Platform_new

\* AppStateData::new, AppConfig::new and AppState::new.
AppStateData_new == [fileserver_hits |-> 0]
AppConfig_new == [platform |-> Platform_new]
AppState_new == [data |-> AppStateData_new, config |-> AppConfig_new]

\* delete_all_users (queries.rs): the platform it is handed is asserted to
\* be Dev, then DELETE FROM users.  When the assertion fails the call panics
\* before the statement is sent.  store_ok is whether the database carried
\* the statement out; val is the number of rows affected.
delete_all_users(db, platform, store_ok) ==
    IF platform # Dev
    THEN [panicked |-> TRUE, ok |-> FALSE, db |-> db]
    ELSE IF store_ok
         THEN [panicked |-> FALSE, ok |-> TRUE, val |-> Cardinality(db),
               db |-> {}]
         ELSE [panicked |-> FALSE, ok |-> FALSE, db |-> db]

(* ------------------------------- tasks -------------------------------- *)

NoRequest == [kind |-> "none"]
NoLocal == [kind |-> "none"]
NoResponse == Response(0, "")

\* assert_eq!: the handler goes on only when both sides are equal; when they
\* differ it panics and writes no response.
assert_eq(left, right) == left = right

\* A task that is between requests.
IdleTask == [pc |-> "idle", req |-> NoRequest, local |-> NoLocal]

\* The request most recently answered: the handler, what it was sent, the
\* locals it held when it returned, and the response.
Served(op, req, local, resp) ==
    [op |-> op, req |-> req, local |-> local, resp |-> resp]

Free(p) == tasks[p].pc = "idle"

\* Logins that have passed the password check and not yet answered.
LoginsInFlight == {p \in Tasks : tasks[p].pc = "login_issue"}

\* The row an earlier create_user left in the users table.
FirstUser == insert_user({}, 7, "walt@breakingbad.com", "123456")

Init ==
    /\ now = StartTime
    /\ ticks = 0
    /\ users = FirstUser.db
    /\ refresh_tokens = <<>>
    /\ chirps = {}
    /\ state = AppState_new
    /\ tasks = [p \in Tasks |-> IdleTask]
    /\ last = Served("none", NoRequest, NoLocal, NoResponse)

\* The clock moves forward.
Tick(d) ==
    /\ ticks < MaxTicks
    /\ now' = now + d
    /\ ticks' = ticks + 1
    /\ UNCHANGED <<users, refresh_tokens, chirps, tasks, last, state>>

\* create_user: the whole handler.
create_user(p, id, email, password) ==
    /\ Free(p)
    /\ LET res == insert_user(users, id, email, password)
           req == [email |-> email, password |-> password]
       IN /\ users' = res.db
          /\ last' = IF res.ok
                     THEN Served("create_user", req, NoLocal,
                                 Response(201, UserJson(res.val)))
                     ELSE Served("create_user", req, NoLocal, Response(400, ""))
    /\ UNCHANGED <<now, ticks, refresh_tokens, chirps, tasks, state>>

\* login, up to the point where it awaits new_refresh_token: the user is
\* looked up and the password verified.
login_lookup(p, body) ==
    /\ Free(p)
    /\ Cardinality(DOMAIN refresh_tokens) + Cardinality(LoginsInFlight) < MaxTokens
    /\ LET payload == LoginPayload(body)
           user == get_user_by_email(users, payload.email)
           req == body
       IN IF user.ok /\ verify(user.val, payload.password)
          THEN /\ tasks' = [tasks EXCEPT ![p] =
                     [pc |-> "login_issue", req |-> req, local |-> [user |-> user]]]
               /\ UNCHANGED last
          ELSE /\ last' = Served("login", req,
                                 [user |-> [ok |-> user.ok], verified |-> FALSE],
                                 error_response)
               /\ UNCHANGED tasks
    /\ UNCHANGED <<now, ticks, users, refresh_tokens, chirps, state>>

\* login, suspended at new_refresh_token(&db, &user).await: the INSERT
\* runs in the database, which stamps the row with its NOW().  Of the row
\* returned the task keeps the two fields the handler reads.
login_issue(p, bits, store_ok) ==
    /\ tasks[p].pc = "login_issue"
    /\ LET user == tasks[p].local.user.val
           issued == new_refresh_token(refresh_tokens, user, bits, now, store_ok)
       IN /\ refresh_tokens' = issued.db
          /\ tasks' = [tasks EXCEPT ![p] =
                [pc |-> "login_encode", req |-> tasks[p].req,
                 local |-> [user |-> tasks[p].local.user,
                            issued |-> IF issued.ok
                                       THEN [ok |-> TRUE,
                                             val |-> [token |-> issued.val.token,
                                                      user_id |-> issued.val.user_id]]
                                       ELSE [ok |-> FALSE],
                            token |-> make_refresh_token(bits)]]]
    /\ UNCHANGED <<now, ticks, users, chirps, state, last>>

\* login, resumed after new_refresh_token: encode_user reads the clock,
\* the pair is matched, the assertion is made and the response written.
login_encode(p, lib_ok) ==
    /\ tasks[p].pc = "login_encode"
    /\ LET user == tasks[p].local.user.val
           issued == tasks[p].local.issued
           jwt == encode_user(JwtKey(Secret), user.id, expires_in, now, lib_ok)
           local == [user |-> [ok |-> TRUE], verified |-> TRUE,
                     issued |-> [ok |-> issued.ok],
                     encoded |-> [ok |-> jwt.ok], user_id |-> user.id,
                     entry_user_id |-> IF issued.ok THEN issued.val.user_id
                                       ELSE NULL,
                     token |-> tasks[p].local.token,
                     current_time |-> now]
       IN /\ last' = IF issued.ok /\ jwt.ok
                     THEN IF assert_eq(user.id, issued.val.user_id)
                          THEN Served("login", tasks[p].req, local,
                                      Response(200, LoginResponse(user, jwt.val,
                                                          issued.val.token)))
                          ELSE Served("login", tasks[p].req, local, NoResponse)
                     ELSE Served("login", tasks[p].req, local, error_response)
          /\ tasks' = [tasks EXCEPT ![p] = IdleTask]
    /\ UNCHANGED <<now, ticks, users, refresh_tokens, chirps, state>>

\* refresh, up to the point where get_refresh_token_entry returns.
refresh_lookup(p, headers) ==
    /\ Free(p)
    /\ LET token == extract_bearer_token(headers)
           token_entry == IF token.ok
                          THEN get_refresh_token_entry(refresh_tokens, token.val)
                          ELSE [ok |-> FALSE, db |-> refresh_tokens]
           req == [headers |-> headers]
       IN /\ refresh_tokens' = token_entry.db
          /\ IF token_entry.ok
             THEN /\ tasks' = [tasks EXCEPT ![p] =
                        [pc |-> "refresh_check", req |-> req,
                         local |-> [token_entry |-> token_entry.val]]]
                  /\ UNCHANGED last
             ELSE /\ last' = Served("refresh", req, [found |-> FALSE],
                                    Response(401, ""))
                  /\ UNCHANGED tasks
    /\ UNCHANGED <<now, ticks, users, chirps, state>>

\* refresh, from reading the clock to the response.
refresh_check(p, lib_ok, past) ==
    /\ tasks[p].pc = "refresh_check"
    /\ LET token_entry == tasks[p].local.token_entry
           current_time == now
           local == [found |-> TRUE, token_entry |-> token_entry,
                     current_time |-> current_time]
           jwt == encode_user(JwtKey(Secret), token_entry.user_id, AccessTtl,
                              current_time, lib_ok)
       IN last' = IF ~refresh_token_checks(token_entry, current_time, past)
                  THEN Served("refresh", tasks[p].req, local, Response(401, ""))
                  ELSE IF ~jwt.ok
                  THEN Served("refresh", tasks[p].req, local, Response(500, ""))
                  ELSE Served("refresh", tasks[p].req, local,
                              Response(200, RefreshResponse(jwt.val)))
    /\ tasks' = [tasks EXCEPT ![p] = IdleTask]
    /\ UNCHANGED <<now, ticks, users, refresh_tokens, chirps, state>>

\* revoke: the whole handler.  Every Err of revoke_refresh_token is
\* answered 404.
revoke(p, headers, store_ok) ==
    /\ Free(p)
    /\ LET token == extract_bearer_token(headers)
           res == IF token.ok
                  THEN revoke_refresh_token(refresh_tokens, token.val, now,
                                            store_ok)
                  ELSE [ok |-> FALSE, db |-> refresh_tokens]
           req == [headers |-> headers]
           local == [current_time |-> now]
       IN /\ refresh_tokens' = res.db
          /\ last' = IF ~token.ok THEN Served("revoke", req, local, Response(401, ""))
                     ELSE IF ~res.ok THEN Served("revoke", req, local, Response(404, ""))
                     ELSE Served("revoke", req, local, Response(204, ""))
    /\ UNCHANGED <<now, ticks, users, chirps, tasks, state>>

\* The JSON values of a request's text.  A number is an integer; the
\* members of an object are pairs <<name, value>> in the order of the
\* text; JsonInvalid stands where the text stops being JSON (it ends or
\* goes on with what is no JSON), and nothing of the text after that
\* place is part of the value.
JsonString(s) == [type |-> "string", str |-> s]
JsonNumber(n) == [type |-> "number", num |-> n]
JsonArray(elements) == [type |-> "array", elements |-> elements]
JsonObject(members) == [type |-> "object", members |-> members]
JsonInvalid == [type |-> "invalid"]

\* The body of a request with Content-Type: application/json, within the
\* default body limit, whose text is the JSON value and nothing but white
\* space after it.
JsonBody(value) ==
    [json_content_type |-> TRUE, within_limit |-> TRUE, value |-> value,
     trailing |-> FALSE]

\* The request structs (derive(Deserialize)): their fields in the order of
\* declaration, each with its type.
PostChirpPayload ==
    [kind |-> "struct", fields |-> <<<<"body", [kind |-> "String"]>>>>]
PutUserReq ==
    [kind |-> "struct", fields |-> <<<<"email", [kind |-> "String"]>>,
                                     <<"password", [kind |-> "String"]>>>>]
PolkaData ==
    [kind |-> "struct", fields |-> <<<<"user_id", [kind |-> "Uuid"]>>>>]
PolkaReq ==
    [kind |-> "struct", fields |-> <<<<"event", [kind |-> "String"]>>,
                                     <<"data", PolkaData>>>>]

\* Whether a value is JSON all through, as the reading of a value that is
\* skipped asks.
RECURSIVE IgnoredAny(_)
IgnoredAny(value) ==
    IF value.type = "invalid" THEN FALSE
    ELSE IF value.type = "array"
    THEN \A i \in 1..Len(value.elements) : IgnoredAny(value.elements[i])
    ELSE IF value.type = "object"
    THEN \A i \in 1..Len(value.members) : IgnoredAny(value.members[i][2])
    ELSE TRUE

\* serde_json's Deserialize of a JSON value into a String, a Uuid or a
\* derived struct.  A String takes a JSON string, a Uuid a JSON string that
\* parses.  A struct takes an object, whose members are read in the order
\* of the text: a member of another name is skipped, a second member of a
\* name is an error before its value is read, and after the last member
\* every field must have been given; or an array, whose elements are the
\* fields in their order, with no element left over.  The text is read
\* only as far as the first error: that is an error of syntax where the
\* text is no JSON and for an element left over, an error of data
\* otherwise.
RECURSIVE deserialize(_, _)
deserialize(value, T) ==
    LET Data == [ok |-> FALSE, category |-> "Data"]
        Syntax == [ok |-> FALSE, category |-> "Syntax"]
        first(read) ==
            CHOOSE i \in DOMAIN read :
                ~read[i].ok /\ \A j \in 1..(i - 1) : read[j].ok
    IN IF value.type = "invalid" THEN Syntax
       ELSE IF T.kind = "String"
       THEN IF value.type = "string" THEN [ok |-> TRUE, val |-> value.str]
            ELSE Data
       ELSE IF T.kind = "Uuid"
       THEN IF value.type = "string" /\ UuidTryParse(value.str).ok
            THEN [ok |-> TRUE, val |-> UuidTryParse(value.str).val]
            ELSE Data
       ELSE LET fields == T.fields
                names == {fields[i][1] : i \in 1..Len(fields)}
                type_of(name) ==
                    fields[CHOOSE i \in 1..Len(fields) : fields[i][1] = name][2]
            IN IF value.type = "object"
               THEN LET members == value.members
                        member(i) ==
                            IF members[i][1] \notin names
                            THEN IF IgnoredAny(members[i][2]) THEN [ok |-> TRUE]
                                 ELSE Syntax
                            ELSE IF \E j \in 1..(i - 1) :
                                       members[j][1] = members[i][1]
                            THEN Data
                            ELSE deserialize(members[i][2],
                                             type_of(members[i][1]))
                        visit_map(read) ==
                            IF \E i \in DOMAIN read : ~read[i].ok
                            THEN read[first(read)]
                            ELSE IF \E name \in names :
                                      \A i \in DOMAIN read : members[i][1] # name
                            THEN Data
                            ELSE [ok |-> TRUE,
                                  val |-> [name \in names |->
                                             read[CHOOSE i \in DOMAIN read :
                                                    members[i][1] = name].val]]
                    IN visit_map([i \in 1..Len(members) |-> member(i)])
               ELSE IF value.type = "array"
               THEN LET elements == value.elements
                        element(i) ==
                            IF i > Len(elements) THEN Data
                            ELSE deserialize(elements[i], fields[i][2])
                        visit_seq(read) ==
                            IF \E i \in DOMAIN read : ~read[i].ok
                            THEN read[first(read)]
                            ELSE IF Len(elements) > Len(fields) THEN Syntax
                            ELSE [ok |-> TRUE,
                                  val |-> [name \in names |->
                                             read[CHOOSE i \in DOMAIN read :
                                                    fields[i][1] = name].val]]
                    IN visit_seq([i \in 1..Len(fields) |-> element(i)])
               ELSE Data

\* axum::Json<T>::from_request: the content type is looked at first, then
\* the body is buffered up to the default limit, then the text is read
\* into T, and after the value the text must be at its end.  An error of
\* syntax is answered 400, an error of data 422.  The text of a rejection
\* is written as the rejection's name.
Json(body, T) ==
    IF ~body.json_content_type
    THEN [ok |-> FALSE, rejection |-> Response(415, "MissingJsonContentType")]
    ELSE IF ~body.within_limit
    THEN [ok |-> FALSE, rejection |-> Response(413, "LengthLimitError")]
    ELSE LET from_bytes(read) ==
                 IF read.ok
                 THEN IF body.trailing
                      THEN [ok |-> FALSE,
                            rejection |-> Response(400, "JsonSyntaxError")]
                      ELSE read
                 ELSE IF read.category = "Syntax"
                 THEN [ok |-> FALSE,
                       rejection |-> Response(400, "JsonSyntaxError")]
                 ELSE [ok |-> FALSE,
                       rejection |-> Response(422, "JsonDataError")]
         IN from_bytes(deserialize(body.value, T))

\* axum::extract::Path<Uuid>::from_request_parts: the path segment read
\* as a Uuid.
Path(segment) ==
    LET id == UuidTryParse(segment)
    IN IF id.ok THEN id
       ELSE [ok |-> FALSE,
             rejection |-> Response(400, "FailedToDeserializePathParams")]

\* A request one of the handler's extractors rejected: the framework
\* answers with the rejection and the handler does not run.
Rejected(op, req, rejection) ==
    /\ last' = Served(op, req, [current_time |-> now], rejection)
    /\ UNCHANGED <<now, ticks, users, refresh_tokens, chirps, tasks, state>>

\* Handlers that have decoded their token and await their statement.
PostsInFlight == {p \in Tasks : tasks[p].pc = "post_chirp_insert"}

\* post_chirp up to insert_chirp(..).await, which post_chirp_as continues
\* with the result of extract_user_id_from_bearer: the token is decoded at
\* this reading of the clock and the body validated.
post_chirp_as(p, user_id, chirp_payload, headers, request_body) ==
    /\ LET body == ChirpBody(chirp_payload.body)
           req == [headers |-> headers, body |-> request_body]
           local == [user_id |-> user_id, current_time |-> now]
       IN IF ~user_id.ok
          THEN /\ last' = Served("post_chirp", req, local, Response(401, ""))
               /\ UNCHANGED tasks
          ELSE IF ~body.ok
          THEN /\ last' = Served("post_chirp", req, local,
                                 Response(400, [error |-> "Chirp is too long"]))
               /\ UNCHANGED tasks
          ELSE /\ tasks' = [tasks EXCEPT ![p] =
                     [pc |-> "post_chirp_insert", req |-> req,
                      local |-> [user_id |-> user_id, current_time |-> now,
                                 body |-> body.val]]]
               /\ UNCHANGED last
    /\ UNCHANGED <<now, ticks, users, refresh_tokens, chirps, state>>

\* post_chirp: the extractors run in the order of the arguments, Json last,
\* and the handler only when all of them succeed.
post_chirp(p, headers, request_body) ==
    /\ Free(p)
    /\ Cardinality(chirps) + Cardinality(PostsInFlight) < MaxChirps
    /\ LET handler(json) ==
               IF json.ok
               THEN post_chirp_as(p, extract_user_id_from_bearer(
                                         headers, JwtKey(Secret), now),
                                  json.val, headers, request_body)
               ELSE Rejected("post_chirp",
                             [headers |-> headers, body |-> request_body],
                             json.rejection)
       IN handler(Json(request_body, PostChirpPayload))

\* post_chirp from insert_chirp to the response: the INSERT runs in the
\* database, which stamps the row with its NOW().
post_chirp_insert(p, chirp_id, store_ok) ==
    /\ tasks[p].pc = "post_chirp_insert"
    /\ LET mine == tasks[p].local
           res == IF store_ok
                  THEN insert_chirp(chirps, mine.body, mine.user_id.val,
                                    chirp_id, now)
                  ELSE [ok |-> FALSE, db |-> chirps]
           local == [user_id |-> mine.user_id, current_time |-> mine.current_time]
       IN /\ chirps' = res.db
          /\ last' = IF res.ok
                     THEN Served("post_chirp", tasks[p].req, local,
                                 Response(201, ChirpJson(res.val)))
                     ELSE Served("post_chirp", tasks[p].req, local,
                                 Response(500, ""))
          /\ tasks' = [tasks EXCEPT ![p] = IdleTask]
    /\ UNCHANGED <<now, ticks, users, refresh_tokens, state>>

\* delete_chirp up to delete_chirp_if_author(..).await, which
\* delete_chirp_as continues with the result of
\* extract_user_id_from_bearer.
delete_chirp_as(p, user_id, path, headers) ==
    /\ LET req == [headers |-> headers, path |-> path,
                   chirp_id |-> Path(path).val]
           local == [user_id |-> user_id, current_time |-> now]
       IN IF ~user_id.ok
          THEN /\ last' = Served("delete_chirp", req, local, Response(401, ""))
               /\ UNCHANGED tasks
          ELSE /\ tasks' = [tasks EXCEPT ![p] =
                     [pc |-> "delete_chirp_if_author", req |-> req,
                      local |-> local]]
               /\ UNCHANGED last
    /\ UNCHANGED <<now, ticks, users, refresh_tokens, chirps, state>>

\* delete_chirp: path is the last segment of the request's path, which
\* the Path extractor reads before the handler runs.
delete_chirp(p, path, headers) ==
    /\ Free(p)
    /\ IF Path(path).ok
       THEN delete_chirp_as(p, extract_user_id_from_bearer(headers, JwtKey(Secret),
                                                           now),
                            path, headers)
       ELSE Rejected("delete_chirp",
                     [headers |-> headers, path |-> path, chirp_id |-> NULL],
                     Path(path).rejection)

\* delete_chirp from delete_chirp_if_author to the response: every Err of
\* the statement is answered 403.
delete_chirp_statement(p, store_ok) ==
    /\ tasks[p].pc = "delete_chirp_if_author"
    /\ LET res == delete_chirp_if_author(chirps, tasks[p].req.chirp_id,
                                         tasks[p].local.user_id.val, store_ok)
       IN /\ chirps' = res.db
          /\ last' = IF res.ok
                     THEN Served("delete_chirp", tasks[p].req, tasks[p].local,
                                 Response(204, ""))
                     ELSE Served("delete_chirp", tasks[p].req, tasks[p].local,
                                 Response(403, ""))
          /\ tasks' = [tasks EXCEPT ![p] = IdleTask]
    /\ UNCHANGED <<now, ticks, users, refresh_tokens, state>>

\* update_user up to update_user_credentials(..).await, which
\* update_user_as continues with the result of extract_jwt_token_user_id.
update_user_as(p, user_id, headers, request_body) ==
    /\ LET req == [headers |-> headers, body |-> request_body]
           local == [user_id |-> user_id, current_time |-> now]
       IN IF ~user_id.ok
          THEN /\ last' = Served("update_user", req, local, Response(401, ""))
               /\ UNCHANGED tasks
          ELSE /\ tasks' = [tasks EXCEPT ![p] =
                     [pc |-> "update_user_credentials", req |-> req,
                      local |-> local]]
               /\ UNCHANGED last
    /\ UNCHANGED <<now, ticks, users, refresh_tokens, chirps, state>>

\* update_user: the Json extractor is the last argument and runs before
\* the handler.
update_user(p, headers, request_body) ==
    /\ Free(p)
    /\ LET handler(json) ==
               IF json.ok
               THEN update_user_as(p, extract_user_id_from_bearer(
                                          headers, JwtKey(Secret), now),
                                   headers, request_body)
               ELSE Rejected("update_user",
                             [headers |-> headers, body |-> request_body],
                             json.rejection)
       IN handler(Json(request_body, PutUserReq))

\* update_user from update_user_credentials to the response.
update_user_statement(p, store_ok) ==
    /\ tasks[p].pc = "update_user_credentials"
    /\ LET statement(req_body) ==
               update_user_credentials(users, tasks[p].local.user_id.val,
                                       req_body.email, req_body.password,
                                       store_ok)
           res == statement(Json(tasks[p].req.body, PutUserReq).val)
       IN /\ users' = res.db
          /\ last' = IF res.ok
                     THEN Served("update_user", tasks[p].req, tasks[p].local,
                                 Response(200, UserJson(res.val)))
                     ELSE Served("update_user", tasks[p].req, tasks[p].local,
                                 Response(500, ""))
          /\ tasks' = [tasks EXCEPT ![p] = IdleTask]
    /\ UNCHANGED <<now, ticks, refresh_tokens, chirps, state>>

\* polka_webhook: authorized is what PolkaAPIKey::request_authorized made
\* of the headers.  The Json extractor runs before the handler.
polka_webhook(p, authorized, request_body, store_ok) ==
    /\ Free(p)
    /\ LET handler(req) ==
               LET res == make_user_red(users, req.data.user_id, store_ok)
                   local == [authorized |-> authorized]
               IN /\ IF ~authorized
                     THEN /\ last' = Served("polka_webhook", req, local,
                                            Response(401, ""))
                          /\ UNCHANGED users
                     ELSE IF req.event # "user.upgraded"
                     THEN /\ last' = Served("polka_webhook", req, local,
                                            Response(204, ""))
                          /\ UNCHANGED users
                     ELSE /\ users' = res.db
                          /\ last' = IF res.ok
                                     THEN Served("polka_webhook", req, local,
                                                 Response(204, ""))
                                     ELSE Served("polka_webhook", req, local,
                                                 Response(404, ""))
                  /\ UNCHANGED <<now, ticks, refresh_tokens, chirps, tasks,
                                 state>>
           extracted(json) ==
               IF json.ok THEN handler(json.val)
               ELSE Rejected("polka_webhook", [body |-> request_body],
                             json.rejection)
       IN extracted(Json(request_body, PolkaReq))

\* The task the runtime hands the next request to: the first idle one.
NextTask == {p \in Tasks : Free(p) /\ \A q \in Tasks : Free(q) => p <= q}

\* One step of the server.  encode_outcomes holds the outcomes of
\* jsonwebtoken::encode the step may meet.
Step(encode_outcomes) ==
    \/ \E d \in TickSteps : Tick(d)
    \/ \E p \in NextTask, id \in UuidValues, e \in Emails, pw \in NewPasswords :
          create_user(p, id, e, pw)
    \/ \E p \in NextTask, body \in LoginBodies : login_lookup(p, body)
    \/ \E p \in Tasks, bits \in RandomPairs, store_ok \in BOOLEAN :
          login_issue(p, bits, store_ok)
    \/ \E p \in Tasks, lib_ok \in encode_outcomes : login_encode(p, lib_ok)
    \/ \E p \in NextTask, h \in HeaderMaps : refresh_lookup(p, h)
    \/ \E p \in Tasks, lib_ok \in encode_outcomes, past \in SubSecond :
            refresh_check(p, lib_ok, past)
    \/ \E p \in NextTask, h \in HeaderMaps, store_ok \in BOOLEAN :
          revoke(p, h, store_ok)

\* With an HS256 key jsonwebtoken::encode returns Ok.
Next == Step({TRUE})

Spec == Init /\ [][Next]_vars

\* The server when jsonwebtoken::encode may also return Err, the case the
\* handlers match on.
NextEncodeFault == Step(BOOLEAN)

SpecEncodeFault == Init /\ [][NextEncodeFault]_vars

(* ------------------- the functions called directly -------------------- *)

\* The secrets a JwtKey is made from: the server's and another one.
Secrets == {Secret, "other-secret"}
\* The lifetimes encode_user is asked for.
ExpiresIn == {1, AccessTtl}
\* The pairs std::random can yield for make_refresh_token.
AllRandomPairs == RandomValues \X RandomValues
\* How far one Tick moves the clock between an encode and a decode: up to,
\* onto and past exp, and onto and past exp + leeway, for both lifetimes.
CodecTickSteps ==
    {1, Leeway + 1, Leeway + 2, AccessTtl - 1, AccessTtl, AccessTtl + Leeway + 1}

Text(str) == Authorization(str)
\* The texts "Bearer abc", "Token abc" and others near them.
abc == <<"a", "b", "c">>
BearerNoSpace == <<"B", "e", "a", "r", "e", "r">>
LowerBearerPrefix == <<"b", "e", "a", "r", "e", "r", " ">>
CodecHeaderMaps ==
    {NoAuthorization, OpaqueAuthorization,
     Text(BearerPrefix \o abc), Text(TokenPrefix \o abc),
     Text(LowerBearerPrefix \o abc), Text(BearerNoSpace \o abc),
     Text(BearerNoSpace), Text(BearerPrefix), Text(abc),
     Text(<<" ">> \o BearerPrefix \o abc),
     Text(BearerPrefix \o BearerPrefix \o abc)}

\* JwtKey::from(secret).encode_user(user_id, expires_in), called now.
call_encode_user(secret, user_id, ttl) ==
    /\ last' = Served("encode_user",
                      [secret |-> secret, user_id |-> user_id, expires_in |-> ttl],
                      [current_time |-> now],
                      encode_user(JwtKey(secret), user_id, ttl, now, TRUE))
    /\ UNCHANGED <<now, ticks, users, refresh_tokens, chirps, tasks, state>>

\* JwtKey::from(secret).decode_user(token), called now on the token the
\* last call of encode_user returned or the last call of decode_user was
\* given.  token_data is what its call of decode returned.
call_decode_user(secret) ==
    /\ last.op \in {"encode_user", "decode_user"}
    /\ LET token == IF last.op = "encode_user" THEN last.resp.val
                    ELSE last.req.token
           minted == IF last.op = "encode_user" THEN last.req ELSE last.req.minted
           token_data == decode(JwtKey(secret), token, now)
       IN last' = Served("decode_user",
                         [secret |-> secret, token |-> token, minted |-> minted],
                         [current_time |-> now,
                          token_data |-> [ok |-> token_data.ok]],
                         decode_user(JwtKey(secret), token, now))
    /\ UNCHANGED <<now, ticks, users, refresh_tokens, chirps, tasks, state>>

\* make_refresh_token(), with bits what std::random yielded.
call_make_refresh_token(bits) ==
    /\ last' = Served("make_refresh_token", [bits |-> bits], NoLocal,
                      make_refresh_token(bits))
    /\ UNCHANGED <<now, ticks, users, refresh_tokens, chirps, tasks, state>>

\* extract_bearer_token(headers).
call_extract_bearer_token(headers) ==
    /\ last' = Served("extract_bearer_token", [headers |-> headers], NoLocal,
                      extract_bearer_token(headers))
    /\ UNCHANGED <<now, ticks, users, refresh_tokens, chirps, tasks, state>>

NextCodec ==
    \/ \E d \in CodecTickSteps : Tick(d)
    \/ \E secret \in Secrets, id \in UuidValues, ttl \in ExpiresIn :
          call_encode_user(secret, id, ttl)
    \/ \E secret \in Secrets : call_decode_user(secret)
    \/ \E bits \in AllRandomPairs : call_make_refresh_token(bits)
    \/ \E h \in CodecHeaderMaps : call_extract_bearer_token(h)

\* The functions of auth.rs and extract_bearer_token called on their own,
\* with the clock moving between the calls.
SpecCodec == Init /\ [][NextCodec]_vars

(* ----------------------- the protected endpoints ----------------------- *)

\* Values gen_random_uuid() can return for a chirp.
ChirpIds == {3, 4}

hi_Fornax == <<"h", "i", " ", " ", "F", "o", "r", "n", "a", "x">>
\* Bodies Json rejects whatever the struct: one sent without the JSON
\* content type, one over the body limit, and one whose text is not JSON.
RejectedBodies ==
    {[JsonBody(JsonString(hi_Fornax)) EXCEPT !.json_content_type = FALSE],
     [JsonBody(JsonString(hi_Fornax)) EXCEPT !.within_limit = FALSE],
     JsonBody(JsonInvalid)}

\* The bodies sent to post_chirp: a short chirp, one of 141 bytes, one of
\* 140 characters and 141 bytes, an object without the field body, and the
\* rejected ones.
PostChirpPayloads ==
    {JsonBody(JsonObject(<<<<"body", JsonString(body)>>>>)) :
        body \in {hi_Fornax,
                  [i \in 1..(MaxChirpLen + 1) |-> "a"],
                  [i \in 1..MaxChirpLen |-> IF i = 1 THEN "U+00E9" ELSE "a"]}}
        \cup {JsonBody(JsonObject(<<<<"text", JsonString(hi_Fornax)>>>>))}
        \cup RejectedBodies

\* The bodies sent to update_user: new credentials, and an object whose
\* email is a number.
PutUserReqs ==
    {JsonBody(JsonObject(<<<<"email", JsonString("saul@bettercall.com")>>,
                           <<"password", JsonString("hunter2")>>>>)),
     JsonBody(JsonObject(<<<<"email", JsonNumber(5)>>,
                           <<"password", JsonString("hunter2")>>>>))}

\* The last segment of the paths sent to delete_chirp: the ids in their
\* hyphenated form, and a text that is no uuid.
ChirpPaths == {UuidToString(id) : id \in ChirpIds} \cup {abc}

\* The ids gen_random_uuid() returns to the one user of SpecProtected, and
\* the paths that user sends.
ProtectedChirpIds == {id \in ChirpIds : \A other \in ChirpIds : id <= other}
ProtectedChirpPaths == {UuidToString(id) : id \in ProtectedChirpIds} \cup {abc}

\* Seconds between the INSERT of a login and its reading of the clock in
\* encode_user.
EncodeDelays == {0, 1}

\* The access tokens of the sessions.  login holds those the logins behind
\* the stored entries returned; refresh those the refreshes of the entries
\* have returned by now: a refresh at t is answered 200 when the entry,
\* not revoked then, passes refresh_token_checks at t.
SessionTokens ==
    LET login ==
            {encode_user(JwtKey(Secret), refresh_tokens[k].user_id, expires_in,
                         refresh_tokens[k].created_at + d, TRUE).val :
                k \in DOMAIN refresh_tokens, d \in EncodeDelays}
        refreshed ==
            {<<k, t>> \in (DOMAIN refresh_tokens)
                            \X {refresh_tokens[j].expires_at :
                                   j \in DOMAIN refresh_tokens} :
                /\ t <= now
                /\ \E past \in SubSecond :
                      refresh_token_checks(
                          [refresh_tokens[k] EXCEPT !.revoked_at = NULL],
                          t, past)}
        refresh ==
            {encode_user(JwtKey(Secret), refresh_tokens[kt[1]].user_id,
                         AccessTtl, kt[2], TRUE).val : kt \in refreshed}
    IN login \cup refresh

\* The JSON bodies sent to polka_webhook.
PolkaReqs ==
    {JsonBody(JsonObject(
         <<<<"event", JsonString(e)>>,
           <<"data", JsonObject(<<<<"user_id",
                                    JsonString(UuidToString(id))>>>>)>>>>)) :
        e \in {"user.upgraded", "user.downgraded"}, id \in {FirstUser.val.id}}
        \cup {JsonBody(JsonObject(
                  <<<<"event", JsonString("user.upgraded")>>,
                    <<"data", JsonArray(<<JsonString(abc)>>)>>>>))}

\* A token signed with another secret.
ForgedTokens ==
    {encode_user(JwtKey("other-secret"), 7, expires_in, StartTime, TRUE).val}

\* The headers sent to the protected endpoints: none, another scheme, a
\* refresh token, forged tokens, and the access tokens of the sessions.
ProtectedHeaderMaps ==
    {NoAuthorization, Text(TokenPrefix \o abc), Bearer(make_refresh_token(<<1, 1>>))}
        \cup {Bearer(Compact(jwt)) : jwt \in ForgedTokens \cup SessionTokens}

\* How far one Tick moves the clock: to just before an access token's exp,
\* past its exp and the leeway, and to the second in which the refresh
\* token expires.
ProtectedTickSteps == {AccessTtl - 1, AccessTtl + Leeway + 1, RefreshTtl}

\* The entry the login of the first user left in the refresh_tokens table
\* when the server's clock read StartTime.
FirstSession ==
    new_refresh_token(<<>>, FirstUser.val, <<1, 1>>, StartTime, TRUE)

\* The server after the first user has signed up and logged in.
InitProtected ==
    /\ now = StartTime
    /\ ticks = 0
    /\ users = FirstUser.db
    /\ refresh_tokens = FirstSession.db
    /\ chirps = {}
    /\ state = AppState_new
    /\ tasks = [p \in Tasks |-> IdleTask]
    /\ last = Served("none", NoRequest, NoLocal, NoResponse)

\* The most requests to the protected endpoints that are between their
\* decoding of the token and their statement at once.
MaxInFlight == 1

\* The task a request to a protected endpoint is served on.
ProtectedTask ==
    {p \in NextTask : Cardinality({q \in Tasks : ~Free(q)}) < MaxInFlight}

NextProtected ==
    \/ \E d \in ProtectedTickSteps : Tick(d)
    \/ \E p \in NextTask, t \in TokenValues, store_ok \in BOOLEAN :
          revoke(p, Bearer(t), store_ok)
    \/ \E p \in ProtectedTask, h \in ProtectedHeaderMaps, b \in PostChirpPayloads :
          post_chirp(p, h, b)
    \/ \E p \in Tasks, id \in ProtectedChirpIds, store_ok \in BOOLEAN :
          post_chirp_insert(p, id, store_ok)
    \/ \E p \in ProtectedTask, path \in ProtectedChirpPaths,
          h \in ProtectedHeaderMaps :
          delete_chirp(p, path, h)
    \/ \E p \in Tasks, store_ok \in BOOLEAN : delete_chirp_statement(p, store_ok)
    \/ \E p \in ProtectedTask, h \in ProtectedHeaderMaps, b \in PutUserReqs :
          update_user(p, h, b)
    \/ \E p \in Tasks, store_ok \in BOOLEAN : update_user_statement(p, store_ok)
    \/ \E p \in NextTask, authorized \in BOOLEAN, req \in PolkaReqs,
          store_ok \in BOOLEAN :
          polka_webhook(p, authorized, req, store_ok)

\* The server with its protected endpoints, and revoke beside them.
SpecProtected == InitProtected /\ [][NextProtected]_vars

\* The row and the entry a second user's signup and login left behind.
SecondUser == insert_user(FirstUser.db, 200, "saul@bettercall.com", "hunter2")

SecondSession ==
    new_refresh_token(FirstSession.db, SecondUser.val, <<1, MaxRand>>,
                      StartTime, TRUE)

\* The server after two users have signed up and logged in.
InitChirps ==
    /\ now = StartTime
    /\ ticks = 0
    /\ users = SecondUser.db
    /\ refresh_tokens = SecondSession.db
    /\ chirps = {}
    /\ state = AppState_new
    /\ tasks = [p \in Tasks |-> IdleTask]
    /\ last = Served("none", NoRequest, NoLocal, NoResponse)

\* The headers the two users send: none, and each user's access token.
ChirpsHeaderMaps ==
    {NoAuthorization}
        \cup {Bearer(Compact(encode_user(JwtKey(Secret), u.id, expires_in,
                                         StartTime, TRUE).val)) : u \in users}

NextChirps ==
    \/ \E d \in ProtectedTickSteps : Tick(d)
    \/ \E p \in NextTask, h \in ChirpsHeaderMaps,
          b \in PostChirpPayloads \ RejectedBodies :
          post_chirp(p, h, b)
    \/ \E p \in Tasks, id \in ChirpIds, store_ok \in BOOLEAN :
          post_chirp_insert(p, id, store_ok)
    \/ \E p \in NextTask, path \in ChirpPaths, h \in ChirpsHeaderMaps :
          delete_chirp(p, path, h)
    \/ \E p \in Tasks, store_ok \in BOOLEAN : delete_chirp_statement(p, store_ok)

\* Two users posting and deleting chirps.
SpecChirps == InitChirps /\ [][NextChirps]_vars

(* ---------------------- admin.rs and middlewarez.rs ------------------- *)

\* The most requests the file service is sent.
MaxHits == 2

\* Texts a deployment can hand to Platform::from.
PlatformStrings == {"dev", "prod", "Dev", "staging", ""}

\* The referer header of a request to the file service.
NoReferer == [present |-> FALSE]
Referer(text) == [present |-> TRUE, ascii |-> TRUE, bytes |-> text]
OpaqueReferer == [present |-> TRUE, ascii |-> FALSE, bytes |-> <<>>]

localhost == <<"l", "o", "c", "a", "l", "h", "o", "s", "t">>

Referers ==
    {NoReferer, OpaqueReferer, Referer(abc), Referer(abc \o localhost \o abc)}

\* str::contains.
contains(text, pat) ==
    \E i \in 1..(Len(text) - Len(pat) + 1) :
        SubSeq(text, i, i + Len(pat) - 1) = pat

\* request_is_self_redirect: the referer is there, is readable text and
\* contains "localhost".
request_is_self_redirect(referer) ==
    /\ referer.present
    /\ referer.ascii
    /\ contains(referer.bytes, localhost)

\* fileserver_hits_middleware: a request that is not a self redirect is
\* counted, then passed on; the response is the file service's.
fileserver_hits_middleware(referer) ==
    /\ state.data.fileserver_hits < MaxHits
    /\ LET has_been_counted == FALSE
           counts == ~has_been_counted /\ ~request_is_self_redirect(referer)
       IN /\ state' = IF counts
                      THEN [state EXCEPT !.data.fileserver_hits = @ + 1]
                      ELSE state
          /\ last' = Served("app", [referer |-> referer],
                            [has_been_counted |-> counts,
                             hits |-> state.data.fileserver_hits],
                            NoResponse)
    /\ UNCHANGED <<now, ticks, users, refresh_tokens, chirps, tasks>>

\* metrics: the page shows the counter in decimal.
metrics ==
    /\ last' = Served("metrics", NoRequest, NoLocal,
                      Response(200, Decimal(state.data.fileserver_hits)))
    /\ UNCHANGED <<now, ticks, users, refresh_tokens, chirps, state, tasks>>

\* fileserver_hits (main.rs, mounted at /metrics): the counter as text.
fileserver_hits ==
    /\ last' = Served("fileserver_hits", NoRequest, NoLocal,
                      Response(200, <<"H", "i", "t", "s", ":", " ">>
                                       \o Decimal(state.data.fileserver_hits)))
    /\ UNCHANGED <<now, ticks, users, refresh_tokens, chirps, state, tasks>>

\* reset_fileserver_hits (main.rs, mounted at /reset): the counter is set
\* to 0; no platform is consulted and no table touched.
reset_fileserver_hits ==
    /\ state' = [state EXCEPT !.data.fileserver_hits = 0]
    /\ last' = Served("reset_fileserver_hits", NoRequest,
                      [hits |-> state.data.fileserver_hits], Response(200, ""))
    /\ UNCHANGED <<now, ticks, users, refresh_tokens, chirps, tasks>>

\* reset with the counter cleared before the platform is looked at.
reset_check_clears_first(p) ==
    /\ Free(p)
    /\ state' = [state EXCEPT !.data.fileserver_hits = 0]
    /\ IF state.config.platform # Dev
       THEN /\ last' = Served("reset", NoRequest,
                              [platform |-> state.config.platform,
                               panicked |-> FALSE],
                              Response(403, ""))
            /\ UNCHANGED tasks
       ELSE /\ tasks' = [tasks EXCEPT ![p] =
                            [pc |-> "reset_delete", req |-> NoRequest,
                             local |-> [platform |-> state.config.platform]]]
            /\ UNCHANGED last
    /\ UNCHANGED <<now, ticks, users, refresh_tokens, chirps>>

\* reset, up to the point where it awaits delete_all_users: FORBIDDEN
\* unless the platform is Dev, otherwise the counter is cleared.
reset_check(p) ==
    /\ Free(p)
    /\ IF state.config.platform # Dev
       THEN /\ last' = Served("reset", NoRequest,
                              [platform |-> state.config.platform,
                               panicked |-> FALSE],
                              Response(403, ""))
            /\ UNCHANGED <<state, tasks>>
       ELSE /\ state' = [state EXCEPT !.data.fileserver_hits = 0]
            /\ tasks' = [tasks EXCEPT ![p] =
                            [pc |-> "reset_delete", req |-> NoRequest,
                             local |-> [platform |-> state.config.platform]]]
            /\ UNCHANGED last
    /\ UNCHANGED <<now, ticks, users, refresh_tokens, chirps>>

\* reset, from delete_all_users to the response.  A panic in
\* delete_all_users ends the handler without a response.
reset_delete(p, store_ok) ==
    /\ tasks[p].pc = "reset_delete"
    /\ LET res == delete_all_users(users, state.config.platform, store_ok)
           local == [platform |-> state.config.platform,
                     panicked |-> res.panicked]
       IN /\ users' = res.db
          /\ last' = IF res.panicked
                     THEN Served("reset", NoRequest, local, NoResponse)
                     ELSE IF res.ok
                          THEN Served("reset", NoRequest, local,
                                      Response(200, ""))
                          ELSE Served("reset", NoRequest, local,
                                      Response(500, ""))
          /\ tasks' = [tasks EXCEPT ![p] = IdleTask]
    /\ UNCHANGED <<now, ticks, refresh_tokens, chirps, state>>

\* Platform::from(value).
call_Platform_from(value) ==
    /\ last' = Served("Platform::from", [value |-> value], NoLocal,
                      Platform_from(value))
    /\ UNCHANGED <<now, ticks, users, refresh_tokens, chirps, state, tasks>>

\* The server as configured from a platform text, with registered users and
\* no sessions or chirps yet.
InitAdmin ==
    /\ now = StartTime
    /\ ticks = 0
    /\ users = FirstUser.db
    /\ refresh_tokens = <<>>
    /\ chirps = {}
    /\ \E value \in PlatformStrings :
          state = [AppState_new EXCEPT !.config.platform = Platform_from(value)]
    /\ tasks = [p \in Tasks |-> IdleTask]
    /\ last = Served("none", NoRequest, NoLocal, NoResponse)

NextAdmin ==
    \/ \E value \in PlatformStrings : call_Platform_from(value)
    \/ \E p \in NextTask, id \in UuidValues, e \in Emails, pw \in NewPasswords :
          create_user(p, id, e, pw)
    \/ \E referer \in Referers : fileserver_hits_middleware(referer)
    \/ metrics
    \/ fileserver_hits
    \/ reset_fileserver_hits
    \/ \E p \in NextTask : reset_check(p)
    \/ \E p \in Tasks, store_ok \in BOOLEAN : reset_delete(p, store_ok)

\* The admin endpoints, the file service's counter and user registration.
SpecAdmin == InitAdmin /\ [][NextAdmin]_vars

(* ------------------------------ claims -------------------------------- *)

\* StatusCode::X.into_response(): a response of that status with an empty
\* body.
StatusOnly(resp, status) == resp.status = status /\ resp.body = ""

\* The token a refresh or revoke request presented, when its header parsed.
Presented(req) == extract_bearer_token(req.headers)

\* Section 3 of the design: an entry is usable at instant t while it has
\* not expired and has not been revoked.
Active(entry, t) == t < entry.expires_at /\ entry.revoked_at = NULL

\* A refresh that found its entry and went on to the checks.
RefreshChecked == last.op = "refresh" /\ last.local.found

\* A login that passed the password check and went on to issue tokens.
LoginIssued == last.op = "login" /\ last.local.user.ok /\ last.local.verified

\* The instants from which the claims sample "before expiry" of a token.
UnexpiredInstants(jwt) ==
    {t \in {jwt.claims.iat, now, jwt.claims.exp - 1} :
        jwt.claims.iat <= t /\ t < jwt.claims.exp}

\* C1: once a revoke of a token has completed (the entry a refresh fetches
\* carries revoked_at), that refresh is answered 401 and mints no token.
C1_RevokedTokenIsRefused ==
    (RefreshChecked /\ last.local.token_entry.revoked_at # NULL)
        => StatusOnly(last.resp, 401)

\* C2: a refresh presenting a token a login returned, made before its
\* expires_at and with no revoke before it, is answered with an access
\* token.
C2_FreshTokenIsAccepted ==
    (/\ RefreshChecked
     /\ last.local.current_time < last.local.token_entry.expires_at
     /\ last.local.token_entry.revoked_at = NULL)
        => (last.resp.status = 200 /\ "token" \in DOMAIN last.resp.body)

\* C3: a refresh is answered 200 only for an entry that is in the store,
\* unexpired and not revoked; an absent, expired or revoked entry gets 401.
C3_RefreshOnlyWhileActive ==
    last.op = "refresh" =>
        /\ last.resp.status = 200 =>
              (last.local.found
                  /\ Active(last.local.token_entry, last.local.current_time))
        /\ (\/ ~last.local.found
            \/ last.local.current_time >= last.local.token_entry.expires_at
            \/ (/\ last.local.token_entry.revoked_at # NULL
                /\ last.local.token_entry.revoked_at < last.local.current_time))
              => StatusOnly(last.resp, 401)

\* C4: the access token a successful login returns decodes to the id of the
\* user who logged in, and the one a successful refresh returns decodes to
\* the id of the owner of the refresh token, at every instant before the
\* access token's expiry.
C4_AccessTokenDecodesToOwner ==
    /\ (last.op = "login" /\ last.resp.status = 200) =>
          \A t \in UnexpiredInstants(last.resp.body.token) :
             LET who == decode_user(JwtKey(Secret), last.resp.body.token, t)
             IN /\ who.ok
                /\ \E u \in users : u.email = last.req.email /\ u.id = who.val
    /\ (last.op = "refresh" /\ last.resp.status = 200) =>
          \A t \in UnexpiredInstants(last.resp.body.token) :
             LET who == decode_user(JwtKey(Secret), last.resp.body.token, t)
             IN /\ who.ok
                /\ who.val = refresh_tokens[Presented(last.req).val].user_id

\* C5: a login that fails because no user has the email and one that fails
\* because the password is wrong are answered with the same response, 401
\* "Incorrect email or password", which carries no token; neither stores a
\* refresh token.
C5_LoginFailuresLookAlike ==
    [][\A p \in Tasks, body \in LoginBodies :
          (login_lookup(p, body) /\ last'.op = "login" /\ ~last'.local.verified)
              => /\ last'.resp.status = 401
                 /\ last'.resp.body = "Incorrect email or password"
                 /\ refresh_tokens' = refresh_tokens]_vars

\* C6: a login that does not return the pair of tokens has added no entry
\* to the store.
C6_LoginAllOrNothing ==
    (LoginIssued /\ last.resp.status # 200)
        => ~(/\ last.local.issued.ok
             /\ last.local.token \in DOMAIN refresh_tokens
             /\ refresh_tokens[last.local.token].user_id = last.local.user_id
             /\ refresh_tokens[last.local.token].created_at <= last.local.current_time)

\* C7: when storing the refresh token fails during login (the store
\* reports an error, or the token value is already a key of the table), the
\* login is answered with the error response, which carries no token, and
\* every entry of the store is as it was.
C7_StoreErrorAbortsLogin ==
    [][\A p \in Tasks :
          /\ \A bits \in RandomPairs, store_ok \in BOOLEAN :
                (/\ login_issue(p, bits, store_ok)
                 /\ (~store_ok \/ make_refresh_token(bits) \in DOMAIN refresh_tokens))
                    => /\ ~tasks'[p].local.issued.ok
                       /\ refresh_tokens' = refresh_tokens
          /\ (/\ tasks[p].pc = "login_encode"
              /\ ~tasks[p].local.issued.ok
              /\ tasks'[p].pc = "idle")
                 => /\ last'.resp.status = 401
                    /\ last'.resp.body = "Incorrect email or password"
                    /\ refresh_tokens' = refresh_tokens]_vars

\* C8: an entry that is expired or revoked never becomes active again:
\* revoked_at is never set back to null and expires_at never moves later.
C8_TerminalIsForever ==
    [][\A t \in DOMAIN refresh_tokens :
          t \in DOMAIN refresh_tokens' =>
             /\ ~Active(refresh_tokens[t], now) => ~Active(refresh_tokens'[t], now')
             /\ refresh_tokens[t].revoked_at # NULL
                   => refresh_tokens'[t].revoked_at # NULL
             /\ refresh_tokens'[t].expires_at <= refresh_tokens[t].expires_at]_vars

\* C9: a refresh of an active token that is answered while another refresh
\* of the same token is between its lookup and its checks succeeds, with an
\* access token that decodes to the owner.
C9_ConcurrentRefreshesSucceed ==
    (/\ RefreshChecked
     /\ \E q \in Tasks : tasks[q].pc = "refresh_check" /\ tasks[q].req = last.req
     /\ Active(last.local.token_entry, last.local.current_time))
        => /\ last.resp.status = 200
           /\ decode_user(JwtKey(Secret), last.resp.body.token, now)
                 = [ok |-> TRUE, val |-> last.local.token_entry.user_id]

\* C10: no step of a refresh request, answered 200 or not, changes the
\* refresh-token store.
C10_RefreshLeavesStoreUnchanged ==
    [][(\/ \E p \in Tasks, h \in HeaderMaps : refresh_lookup(p, h)
        \/ \E p \in Tasks : /\ tasks[p].pc = "refresh_check"
                             /\ tasks'[p].pc = "idle")
          => refresh_tokens' = refresh_tokens]_vars

\* C12: decode of a token encode_user produced, under the same key, fails
\* at every instant at or after the token's exp and succeeds at every
\* instant strictly before it.
C12_DecodeFailsFromExpiry ==
    (last.op = "decode_user" /\ last.req.secret = last.req.minted.secret)
        => (last.local.token_data.ok
               <=> last.local.current_time < last.req.token.claims.exp)

\* C13: decode_user of a token encode_user(u, ttl) produced returns u when
\* it is called with the same key before the token's exp, and fails when it
\* is called with a different key.
C13_RoundTrip ==
    last.op = "decode_user" =>
        IF last.req.secret = last.req.minted.secret
        THEN last.local.current_time < last.req.token.claims.exp
                => last.resp = [ok |-> TRUE, val |-> last.req.minted.user_id]
        ELSE ~last.resp.ok

\* C15: extract_bearer_token returns the text after "Bearer " when the
\* header's text starts with exactly that prefix ("Bearer abc" gives "abc")
\* and fails when the header is absent, is not text, or does not start
\* with the prefix ("Token abc" fails).
C15_BearerExtractor ==
    last.op = "extract_bearer_token" =>
        LET h == last.req.headers
        IN /\ last.resp.ok <=>
                 (/\ h.present /\ h.ascii
                  /\ \E n \in 0..Len(h.bytes) :
                        h.bytes = BearerPrefix \o SubSeq(h.bytes, Len(h.bytes) - n + 1,
                                                         Len(h.bytes)))
           /\ last.resp.ok => h.bytes = BearerPrefix \o last.resp.val
           /\ h = Text(BearerPrefix \o abc) => last.resp = [ok |-> TRUE, val |-> abc]
           /\ h = Text(TokenPrefix \o abc) => ~last.resp.ok

\* C16: the token make_refresh_token renders has the same length for every
\* pair of random values.
C16_TokenIsFixedWidth ==
    last.op = "make_refresh_token" =>
        \A bits \in AllRandomPairs :
            Len(make_refresh_token(bits)) = Len(last.resp)

ProtectedOps == {"post_chirp", "delete_chirp", "update_user"}

\* A step in which a protected endpoint answered a request.
ProtectedStep ==
    /\ last'.op \in ProtectedOps
    /\ \/ last'.op # last.op
       \/ last'.req # last.req
       \/ last'.local # last.local
       \/ last'.resp.status # last.resp.status
       \/ chirps' # chirps
       \/ users' # users

\* The access token a request to a protected endpoint carried, read
\* without validating it.
Carried(req) ==
    IF extract_bearer_token(req.headers).ok
    THEN JwtParse(extract_bearer_token(req.headers).val)
    ELSE [ok |-> FALSE]

\* Whether the extractors of a protected endpoint accept the request.
Extracted(op, req) ==
    IF op = "delete_chirp" THEN Path(req.path).ok
    ELSE IF op = "post_chirp" THEN Json(req.body, PostChirpPayload).ok
    ELSE Json(req.body, PutUserReq).ok

\* What C17 says of a protected step whose handler ran, with jwt the token
\* its request carried: a token of the server that has not reached its
\* exp authenticates the user it names although an entry of that user has
\* been revoked.
OutlivesRevoke(jwt) ==
    (/\ jwt.ok
     /\ jwt.val.mac = HS256(Secret, jwt.val.claims)
     /\ jwt.val.claims.iss = Issuer
     /\ last'.local.current_time < jwt.val.claims.exp
     /\ \E k \in DOMAIN refresh_tokens :
           /\ UuidToString(refresh_tokens[k].user_id) = jwt.val.claims.sub
           /\ refresh_tokens[k].revoked_at # NULL)
       => /\ last'.local.user_id.ok
          /\ UuidToString(last'.local.user_id.val) = jwt.val.claims.sub
          /\ last'.resp.status # 401

\* C17: a request to a protected endpoint that carries an access token the
\* server minted in a login or a refresh, before the token's exp, is
\* authenticated as the token's user and is not answered 401 although the
\* refresh token of that user's session has been revoked.
C17_AccessTokenOutlivesRevoke ==
    [][(ProtectedStep /\ Extracted(last'.op, last'.req))
          => OutlivesRevoke(Carried(last'.req))]_vars

\* The token the request carried does not decode at the handler's reading
\* of the clock, or there is none.
Undecodable(jwt, current_time) ==
    ~decode_user_parsed(JwtKey(Secret), jwt, current_time).ok

\* C18 as stated: a request to post_chirp, delete_chirp or update_user
\* whose Authorization header is missing, is malformed, or carries a token
\* that does not decode is answered 401 and changes no chirp, user or
\* refresh-token record.  Such a request whose body or path the extractor
\* rejects is answered 400, 413, 415 or 422.
C18_UnauthenticatedIsRefused ==
    [][(ProtectedStep /\ Undecodable(Carried(last'.req), last'.local.current_time))
          => /\ StatusOnly(last'.resp, 401)
             /\ UNCHANGED <<chirps, users, refresh_tokens>>]_vars

\* C18, amended: a request to post_chirp, delete_chirp or update_user
\* whose Authorization header is missing, is malformed, or carries a token
\* that does not decode changes no chirp, user or refresh-token record; it
\* is answered 401 when the endpoint's extractors accept its body and
\* path, and with the extractor's 400, 413, 415 or 422 otherwise.
C18_UnauthenticatedIsRefusedOrRejected ==
    [][(ProtectedStep /\ Undecodable(Carried(last'.req), last'.local.current_time))
          => /\ IF Extracted(last'.op, last'.req)
                THEN StatusOnly(last'.resp, 401)
                ELSE last'.resp.status \in {400, 413, 415, 422}
             /\ UNCHANGED <<chirps, users, refresh_tokens>>]_vars

\* The revoke steps that present the token value tok, in which the
\* store runs the UPDATE (store_ok) or fails it.
RevokeOf(tok, store_ok) ==
    \E p \in Tasks, h \in HeaderMaps :
        /\ extract_bearer_token(h) = [ok |-> TRUE, val |-> tok]
        /\ revoke(p, h, store_ok)

C14_LoginTtlIsAtLeastAnHour ==
    (last.op = "login" /\ last.resp.status = 200) =>
        LET jwt == last.resp.body.token
        IN /\ jwt.claims.exp - jwt.claims.iat >= SecondsPerHour
           /\ \A t \in {jwt.claims.iat, jwt.claims.iat + SecondsPerHour - 1} :
                 decode(JwtKey(Secret), jwt, t).ok

Fixed(entry) ==
    <<entry.token, entry.user_id, entry.created_at, entry.expires_at>>

\* C20 (every reachable state): each entry expires 60 days after its
\* created_at.
C20_ExpiryInvariant ==
    \A k \in DOMAIN refresh_tokens :
        /\ refresh_tokens[k].token = k
        /\ refresh_tokens[k].expires_at
              = refresh_tokens[k].created_at + RefreshTtl

\* C20 (every step): an entry is created with revoked_at null; its token,
\* user_id, created_at and expires_at never change afterwards, and its
\* revoked_at and updated_at change only in a revoke of that token.
C20_LifecycleStep ==
    \A k \in DOMAIN refresh_tokens' :
        IF k \notin DOMAIN refresh_tokens
        THEN refresh_tokens'[k].revoked_at = NULL
        ELSE /\ Fixed(refresh_tokens'[k]) = Fixed(refresh_tokens[k])
             /\ refresh_tokens'[k] # refresh_tokens[k]
                   => \E store_ok \in BOOLEAN : RevokeOf(k, store_ok)

\* C20: every refresh-token entry has expires_at = created_at + 60 days and
\* was created with revoked_at null; after creation its token, user_id,
\* created_at and expires_at never change, and revoked_at / updated_at
\* change only through a revoke of that token.
C20_EntryLifecycle == [](C20_ExpiryInvariant) /\ [][C20_LifecycleStep]_vars

(* ----------------------------- witnesses ------------------------------ *)

\* A refresh answered 200 with a token that decodes, after a login.
C4_Witness ==
    /\ last.op = "refresh" /\ last.resp.status = 200
    /\ decode_user(JwtKey(Secret), last.resp.body.token, now).ok
    /\ \E u \in users : u.id = last.local.token_entry.user_id

\* A login of a registered user turned down for its password.
C5_Witness ==
    /\ last.op = "login" /\ last.local.user.ok /\ ~last.local.verified
    /\ last.resp.status = 401

\* A login whose token value was already in the store.
C7_Witness ==
    /\ LoginIssued /\ ~last.local.issued.ok
    /\ last.local.token \in DOMAIN refresh_tokens
    /\ refresh_tokens[last.local.token].created_at < last.local.current_time

\* A revoke answered 204 for an entry that had already expired, with
\* another entry still active beside it.
C8_Witness ==
    /\ last.op = "revoke" /\ last.resp.status = 204
    /\ refresh_tokens[Presented(last.req).val].expires_at < now
    /\ \E t \in DOMAIN refresh_tokens : Active(refresh_tokens[t], now)

\* A refresh answered 200 while the store holds the entry it presented.
C10_Witness ==
    /\ last.op = "refresh" /\ last.resp.status = 200
    /\ Presented(last.req).val \in DOMAIN refresh_tokens
    /\ Cardinality(DOMAIN refresh_tokens) = 2

\* A token of user 07 decoded under the key that made it, one second
\* before its exp.
C13_Witness ==
    /\ last.op = "decode_user"
    /\ last.req.minted.secret = Secret /\ last.req.secret = Secret
    /\ last.req.minted.user_id = 7
    /\ last.local.current_time = last.req.token.claims.exp - 1
    /\ last.resp.ok /\ last.resp.val = 7

\* "Bearer abc" gave "abc".
C15_Witness ==
    /\ last.op = "extract_bearer_token"
    /\ last.req.headers = Text(BearerPrefix \o abc)
    /\ last.resp.ok /\ last.resp.val = abc

\* A chirp posted with the access token of a session whose refresh token
\* was revoked at an earlier clock reading, before the access token's exp.
C17_Witness ==
    /\ last.op = "post_chirp" /\ last.resp.status = 201
    /\ Carried(last.req).ok
    /\ last.local.current_time < Carried(last.req).val.claims.exp
    /\ \E k \in DOMAIN refresh_tokens :
          /\ refresh_tokens[k].user_id = last.local.user_id.val
          /\ refresh_tokens[k].created_at <= Carried(last.req).val.claims.iat
          /\ refresh_tokens[k].revoked_at # NULL
          /\ refresh_tokens[k].revoked_at < last.local.current_time

\* A delete of a stored chirp, sent with a token signed under another
\* secret, answered 401 with the chirp still in the table.
C18_Witness ==
    /\ last.op = "delete_chirp" /\ last.resp.status = 401
    /\ Carried(last.req).ok
    /\ Carried(last.req).val.mac.key # Secret
    /\ \E c \in chirps : c.chirp_id = last.req.chirp_id

C14_Witness ==
    /\ last.op = "login" /\ last.resp.status = 200
    /\ "expires_in_seconds" \in DOMAIN last.req
    /\ last.req.expires_in_seconds < SecondsPerHour
    /\ last.resp.body.token.claims.exp
          = last.resp.body.token.claims.iat + SecondsPerHour

C20_Witness ==
    \E k, m \in DOMAIN refresh_tokens :
        /\ refresh_tokens[k].created_at < refresh_tokens[m].created_at
        /\ refresh_tokens[k].revoked_at = refresh_tokens[m].created_at
        /\ refresh_tokens[m].revoked_at = NULL

\* C21: the assertion in login holds in every execution, interleaved
\* logins of different users included: the entry a login stores, and the one
\* new_refresh_token hands back, is owned by the user that login looked up
\* for the email of its request, the login is answered rather than
\* panicking, and no later step changes the owner of a stored entry.
C21_OwnerStep ==
    /\ \A p \in Tasks :
          /\ (tasks[p].pc = "login_issue" /\ tasks'[p].pc = "login_encode") =>
                /\ tasks[p].local.user.val.email = tasks[p].req.email
                /\ tasks'[p].local.user = tasks[p].local.user
                /\ \A k \in DOMAIN refresh_tokens' \ DOMAIN refresh_tokens :
                      refresh_tokens'[k].user_id = tasks[p].local.user.val.id
          /\ (tasks[p].pc = "login_encode" /\ tasks'[p].pc = "idle") =>
                /\ refresh_tokens' = refresh_tokens
                /\ (last'.local.issued.ok /\ last'.local.encoded.ok) =>
                      /\ last'.local.entry_user_id = tasks[p].local.user.val.id
                      /\ last'.resp.status = 200
                      /\ last'.resp.body.id = tasks[p].local.user.val.id
    /\ \A k \in DOMAIN refresh_tokens :
          /\ k \in DOMAIN refresh_tokens'
          /\ refresh_tokens'[k].user_id = refresh_tokens[k].user_id

C21_LoginAssertionHolds == [][C21_OwnerStep]_vars

\* C21 witness: a login answered 200 has stored its entry under its own
\* user while another user's login is between its lookup and its insert.
C21_Witness ==
    /\ LoginIssued
    /\ last.resp.status = 200
    /\ last.local.token \in DOMAIN refresh_tokens
    /\ refresh_tokens[last.local.token].user_id = last.local.user_id
    /\ \E q \in Tasks :
          /\ tasks[q].pc = "login_issue"
          /\ tasks[q].local.user.val.id # last.local.user_id

\* A reset that has returned from its platform check and awaits
\* delete_all_users.
ResetEntered(p) == tasks[p].pc # "reset_delete" /\ tasks'[p].pc = "reset_delete"

\* A reset that has called delete_all_users and finished.
ResetFinished(p) == tasks[p].pc = "reset_delete" /\ tasks'[p].pc # "reset_delete"

\* C22, for Platform::from: "dev" is Dev and every other text, "prod" and
\* unrecognised ones alike, is Prod.
C22_FromStr ==
    last.op = "Platform::from" =>
        last.resp = (IF last.req.value = "dev" THEN Dev ELSE Prod)

\* C22, for reset: the configured platform never changes; a user row
\* disappears only in a reset finishing on Dev; on any other platform no
\* reset gets past its check, each reset is answered 403, and neither the
\* hit counter nor the user table changes in that step; a reset that
\* reaches delete_all_users passes its assertion and is answered 200 with
\* the table empty or 500 with the table as it was.
C22_ResetStep ==
    /\ state'.config = state.config
    /\ (\E u \in users : u \notin users') =>
          /\ state.config.platform = Dev
          /\ \E p \in Tasks : ResetFinished(p)
    /\ state.config.platform # Dev =>
          /\ \A p \in Tasks : ~ResetEntered(p) /\ ~ResetFinished(p)
          /\ last'.op = "reset" =>
                /\ StatusOnly(last'.resp, 403)
                /\ state' = state
                /\ users' = users
    /\ \A p \in Tasks :
          /\ ResetEntered(p) =>
                /\ state.config.platform = Dev
                /\ state'.data.fileserver_hits = 0
                /\ users' = users
          /\ ResetFinished(p) =>
                /\ last'.op = "reset"
                /\ ~last'.local.panicked
                /\ \/ StatusOnly(last'.resp, 200) /\ users' = {}
                   \/ StatusOnly(last'.resp, 500) /\ users' = users

C22_ResetOnlyOnDev == [](C22_FromStr) /\ [][C22_ResetStep]_vars

\* C22 witness: on Prod, with hits counted and users registered, a reset has
\* been answered 403.
C22_Witness ==
    /\ state.config.platform = Prod
    /\ state.data.fileserver_hits > 0
    /\ Cardinality(users) = 2
    /\ last.op = "reset"
    /\ StatusOnly(last.resp, 403)

\* The chirps with the id a delete request names that the user who
\* decodes to has written.
Authored(req, who) ==
    {c \in chirps : who.ok /\ c.chirp_id = req.chirp_id /\ c.user_id = who.val}

\* What C23 says of a delete_chirp step, with who the result of decoding
\* the token its request carried.
DeleteByAuthorOnly(who) ==
    /\ (who.ok /\ Authored(last'.req, who) = {}) =>
          /\ StatusOnly(last'.resp, 403)
          /\ chirps' = chirps
    /\ last'.resp.status = 204 =>
          /\ Authored(last'.req, who) # {}
          /\ chirps' = chirps \ Authored(last'.req, who)

\* C23 as stated: a chirp leaves the table only in a delete_chirp step
\* answered 204, which removes the chirp its request names, written by the
\* user its token decodes to, and no other; a delete whose access token
\* decodes to a user who has not written the chirp named, or that names
\* no chirp of the table, is answered 403 and leaves every chirp as it
\* was.  A delete whose path is no uuid is answered 400.
C23_OnlyAuthorDeletes ==
    [][/\ (\E c \in chirps : c \notin chirps') =>
             /\ last'.op = "delete_chirp"
             /\ last'.resp.status = 204
       /\ (ProtectedStep /\ last'.op = "delete_chirp") =>
             DeleteByAuthorOnly(decode_user_parsed(JwtKey(Secret),
                                                   Carried(last'.req),
                                                   last'.local.current_time))]_vars

\* C23, amended: a chirp leaves the table only in a delete_chirp step
\* answered 204, which removes the chirp its request names, written by the
\* user its token decodes to, and no other; a delete whose path is a uuid
\* and whose access token decodes to a user who has not written the chirp
\* named, or that names no chirp of the table, is answered 403 and leaves
\* every chirp as it was; a delete whose path is no uuid is answered 400
\* and leaves every chirp as it was.
C23_OnlyAuthorDeletesOrRejects ==
    [][/\ (\E c \in chirps : c \notin chirps') =>
             /\ last'.op = "delete_chirp"
             /\ last'.resp.status = 204
       /\ (ProtectedStep /\ last'.op = "delete_chirp") =>
             IF Extracted(last'.op, last'.req)
             THEN DeleteByAuthorOnly(decode_user_parsed(JwtKey(Secret),
                                                        Carried(last'.req),
                                                        last'.local.current_time))
             ELSE /\ last'.resp.status = 400
                  /\ chirps' = chirps]_vars

\* C23 witness: a delete by an authenticated user who is not the author of
\* the chirp named has been answered 403 and the chirp is still there.
C23_Witness ==
    /\ last.op = "delete_chirp"
    /\ StatusOnly(last.resp, 403)
    /\ last.local.user_id.ok
    /\ \E c \in chirps :
          /\ c.chirp_id = last.req.chirp_id
          /\ c.user_id # last.local.user_id.val

====
